---- MODULE Spec2Model ----
(***************************************************************************)
(* A model of the AgentCore sample notebooks:                              *)
(*   - the streaming entrypoint strands_agent_bedrock_streaming            *)
(*     (strands_claude_streaming.py, written by the streaming notebook),   *)
(*   - the boto3 client cell of the streaming notebook,                    *)
(*   - the code-interpreter notebook (run-commands-using-code-interpreter),*)
(*   - the browser notebook (Browser-Use with the browser tool).           *)
(* The programs are independent: a behaviour is one run of one of them,    *)
(* chosen by the variable program.  The external collaborators (the agent  *)
(* library, the AWS services, the SDK that consumes the generator) are     *)
(* nondeterministic: every call returns or raises.                         *)
(***************************************************************************)
EXTENDS Integers, Sequences, FiniteSets, TLC

(***************************************************************************)
(* Bounds of the model.                                                    *)
(***************************************************************************)
\* the number of events agent.stream_async produces in one invocation
MaxEvents == 3
\* the number of events in the response stream of invoke_code_interpreter
MaxStreamEvents == 2
\* the number of lines of a text/event-stream response
MaxLines == 3
\* the number of events of a response that is no event stream
MaxResponseEvents == 2
\* the number of times the polling loop reads a status that is no end status
MaxPolls == 2
\* the number of inline policies list_role_policies returns
MaxPolicies == 2

VARIABLES
    program,            \* which program this behaviour runs
    \* ---- strands_agent_bedrock_streaming (async generator) ----
    gen_pc,             \* position of the generator
    payload,            \* the argument of the entrypoint
    user_input,         \* payload.get("prompt")
    event,              \* loop variable of the async for
    e,                  \* the exception in flight / bound by the except clause
    pending,            \* values yielded and not yet taken by the consumer
    received,           \* values the consumer of the generator has taken
    produced,           \* events agent.stream_async has handed over so far
    raised_in,          \* where the agent raised: "none", "call", "iteration"
    stream_async_calls  \* number of calls of agent.stream_async

gen_vars == <<gen_pc, payload, user_input, event, e, pending, received,
              produced, raised_in, stream_async_calls>>

VARIABLES
    \* ---- the remote services, as seen by the running notebook ----
    outstanding,        \* remote operations issued and not yet returned
    calls,              \* log of the remote calls: issued, returned, raised
    \* ---- the code-interpreter notebook ----
    ci_pc,              \* the cell being run, "done" or "halted"
    ci_in_call,         \* the kernel is blocked inside the cell's remote call
    ci_halted_in,       \* the cell whose exception ended the run
    interpreter_id,     \* interpreter_response["codeInterpreterId"]
    session_id,         \* session_response["sessionId"]
    local_file_content, \* the variable of the write-file cell
    unique_bucket_name, \* f"amzn-bucket-{int(time.time())}"
    s3_path,            \* f"s3://{unique_bucket_name}"
    interpreter_response, \* the response of create_code_interpreter
    session_response,   \* the response of start_code_interpreter_session
    files_to_create,    \* the list of the write-file cell
    response,           \* call_tool: response["stream"] of the last call
    events_read,        \* call_tool: the events taken from that stream
    command_response,   \* the value call_tool returned to the cell
    command_results     \* json.loads(command_response)

remote_vars == <<outstanding, calls>>

\* the names the cells bind besides the ids and local_file_content
config_vars == <<unique_bucket_name, s3_path>>
response_vars == <<interpreter_response, session_response>>
tool_vars == <<response, events_read, command_response, command_results>>

ci_vars == <<ci_pc, ci_in_call, ci_halted_in, interpreter_id, session_id,
             local_file_content, config_vars, response_vars, files_to_create,
             tool_vars>>

VARIABLES
    \* ---- the browser notebook ----
    br_pc,              \* the statement being run, "done" or "halted"
    br_in_call,         \* the kernel is blocked inside a remote call
    browser_session,    \* None or the BrowserSession object
    bedrock_chat,       \* None or the ChatBedrockConverse object
    br_exc,             \* the exception that is leaving the try block
    close_attempts,     \* number of calls of browser_session.close()
    ws_url,             \* the first value of client.generate_ws_headers()
    headers,            \* the second value of client.generate_ws_headers()
    profile_headers,    \* browser_profile.headers
    cdp_url,            \* browser_session.cdp_url
    outcome_messages    \* what run_browser_task printed about its outcome

ws_vars == <<ws_url, headers, profile_headers, cdp_url>>

br_vars == <<br_pc, br_in_call, browser_session, bedrock_chat, br_exc,
             close_attempts, ws_vars, outcome_messages>>

VARIABLES
    \* ---- the boto3 client cell of the streaming notebook ----
    cl_pc,              \* position in the cell, "done" or "halted"
    boto3_response,     \* the response of invoke_agent_runtime
    lines,              \* the lines iter_lines has handed over so far
    content,            \* the list content
    full_response,      \* None or the joined text
    events,             \* the list events of the non-streaming branch
    cl_e,               \* the exception bound by `except Exception as e`
    displayed,          \* what display(Markdown(response_data)) has shown
    printed,            \* what print(f"Raw response: ...") has printed
    cl_exc              \* the exception that left the cell

non_streaming_vars == <<events, cl_e, displayed, printed, cl_exc>>

cl_vars == <<cl_pc, boto3_response, lines, content, full_response,
             non_streaming_vars>>

VARIABLES
    \* ---- the cells of the streaming notebook ----
    nb_pc,              \* the statement being run, "done" or "halted"
    nb_in_call,         \* the kernel is blocked inside a remote call
    status,             \* status_response.endpoint['status']
    polls,              \* statuses read so far that were no end status
    policies,           \* policies['PolicyNames']
    policies_left,      \* what the for loop of the cleanup has yet to visit
    policy_name         \* loop variable of the for loop of the cleanup

nb_vars == <<nb_pc, nb_in_call, status, polls, policies, policies_left,
             policy_name>>

vars == <<program, gen_vars, remote_vars, ci_vars, br_vars, cl_vars, nb_vars>>

\* what the actions of the entrypoint leave alone
outside_gen == <<program, remote_vars, ci_vars, br_vars, cl_vars, nb_vars>>

\* what the actions of the code-interpreter notebook leave alone
outside_ci == <<program, gen_vars, br_vars, cl_vars, nb_vars>>

\* what the actions of the browser notebook leave alone
outside_br == <<program, gen_vars, ci_vars, cl_vars, nb_vars>>

\* what the actions of the boto3 client cell leave alone
outside_cl == <<program, gen_vars, remote_vars, ci_vars, br_vars, nb_vars>>

\* what the actions of the cells of the streaming notebook leave alone
outside_nb == <<program, gen_vars, ci_vars, br_vars, cl_vars>>

(***************************************************************************)
(* Python values.  A str is a TLA+ string; a dict is a record; None and    *)
(* "no exception" are sentinels of the type of the variable that holds     *)
(* them.                                                                   *)
(***************************************************************************)
None == "None"
NoEvent == [none |-> "None"]
NoException == [cls |-> "None", msg |-> ""]

\* payloads: the documented {"prompt": str} and a dict without the key
Payloads == {[prompt |-> "what the weather is like?"], [query |-> "q"]}

\* dict.get(key) with the default None
Get(d, key) == IF key \in DOMAIN d THEN d[key] ELSE None

\* events of agent.stream_async: text chunks carry the key "data", the
\* other events (tool use, lifecycle, final result) do not
Events == {[data |-> "a"], [data |-> "b"],
           [data |-> "a", delta |-> "x"],
           [current_tool_use |-> "calculator"],
           [result |-> "end_turn"]}

\* exceptions: instances of Exception (or a subclass) and instances of
\* BaseException outside Exception (asyncio.CancelledError,
\* KeyboardInterrupt), each with its message
Exceptions == {[cls |-> "Exception", msg |-> "throttled"],
               [cls |-> "Exception", msg |-> "boom"],
               [cls |-> "BaseException", msg |-> "cancelled"]}

\* str(e)
Str(ex) == ex.msg

\* whether `except Exception` catches ex
CaughtByExceptException(ex) == ex.cls = "Exception"

\* a yielded value: event["data"] is a str, the error response is a dict
StrValue(s) == [str |-> s]
ErrorResponse(ex) == [error |-> Str(ex), type |-> "stream_error"]

\* the str chunks among yielded values, and the error objects among them
IsStrValue(v) == DOMAIN v = {"str"}
IsErrorObject(v) == DOMAIN v = {"error", "type"}

(***************************************************************************)
(* strands_agent_bedrock_streaming(payload): an async generator.  Its      *)
(* consumer (the SDK's streaming response) drives it with __anext__: the   *)
(* body runs only between a request of the consumer and the next yield.    *)
(*   gen_pc: "created"     the generator object exists, the body not begun *)
(*           "try"         inside try, before agent.stream_async(...)      *)
(*           "anext"       at the async for, awaiting the next event       *)
(*           "have_event"  event bound, before `if "data" in event`        *)
(*           "yield_data"  suspended at `yield event["data"]`              *)
(*           "except"      in the except clause, e bound                   *)
(*           "yield_error" suspended at `yield error_response`             *)
(*           "done"        returned (StopAsyncIteration for the consumer)  *)
(*           "raised"      an exception left the generator                 *)
(***************************************************************************)
GenInit ==
    /\ gen_pc = "created"
    /\ payload \in (IF program = "entrypoint" THEN Payloads
                    ELSE {[prompt |-> "what the weather is like?"]})
    /\ user_input = None
    /\ event = NoEvent
    /\ e = NoException
    /\ pending = <<>>
    /\ received = <<>>
    /\ produced = <<>>
    /\ raised_in = "none"
    /\ stream_async_calls = 0

\* an exception ex raised inside the try block
RaiseInTry(ex) ==
    /\ e' = ex
    /\ gen_pc' = IF CaughtByExceptException(ex) THEN "except" ELSE "raised"

\* the consumer's first __anext__: the body runs up to the try statement
StartGenerator ==
    /\ program = "entrypoint"
    /\ gen_pc = "created"
    /\ user_input' = Get(payload, "prompt")
    /\ gen_pc' = "try"
    /\ UNCHANGED <<outside_gen, payload, event, e, pending, received, produced,
                   raised_in, stream_async_calls>>

\* agent.stream_async(user_input) is called: it returns the iterator
CallStreamAsync ==
    /\ program = "entrypoint"
    /\ gen_pc = "try"
    /\ stream_async_calls' = stream_async_calls + 1
    /\ gen_pc' = "anext"
    /\ UNCHANGED <<outside_gen, payload, user_input, event, e, pending, received,
                   produced, raised_in>>

\* agent.stream_async(user_input) is called: the call raises
CallStreamAsyncRaises ==
    /\ program = "entrypoint"
    /\ gen_pc = "try"
    /\ stream_async_calls' = stream_async_calls + 1
    /\ raised_in' = "call"
    /\ \E ex \in Exceptions : RaiseInTry(ex)
    /\ UNCHANGED <<outside_gen, payload, user_input, event, pending, received,
                   produced>>

\* async for: the iterator hands over the next event
NextEvent ==
    /\ program = "entrypoint"
    /\ gen_pc = "anext"
    /\ Len(produced) < MaxEvents
    /\ \E ev \in Events :
          /\ event' = ev
          /\ produced' = Append(produced, ev)
    /\ gen_pc' = "have_event"
    /\ UNCHANGED <<outside_gen, payload, user_input, e, pending, received,
                   raised_in, stream_async_calls>>

\* async for: the iterator is exhausted, the loop and the function end
StreamExhausted ==
    /\ program = "entrypoint"
    /\ gen_pc = "anext"
    /\ gen_pc' = "done"
    /\ UNCHANGED <<outside_gen, payload, user_input, event, e, pending, received,
                   produced, raised_in, stream_async_calls>>

\* async for: requesting the next event raises
IterationRaises ==
    /\ program = "entrypoint"
    /\ gen_pc = "anext"
    /\ raised_in' = "iteration"
    /\ \E ex \in Exceptions : RaiseInTry(ex)
    /\ UNCHANGED <<outside_gen, payload, user_input, event, pending, received,
                   produced, stream_async_calls>>

\* mutant: the chunk is taken from the event's "delta" entry when it has one
YieldData_Delta ==
    /\ program = "entrypoint"
    /\ gen_pc = "have_event"
    /\ "data" \in DOMAIN event
    /\ pending' = Append(pending,
                         StrValue(IF "delta" \in DOMAIN event
                                  THEN event["delta"] ELSE event["data"]))
    /\ gen_pc' = "yield_data"
    /\ UNCHANGED <<outside_gen, payload, user_input, event, e, received, produced,
                   raised_in, stream_async_calls>>

\* mutant: the chunk is put on a local buffer and the loop goes on at once
YieldData_Buffered ==
    /\ program = "entrypoint"
    /\ gen_pc = "have_event"
    /\ "data" \in DOMAIN event
    /\ pending' = Append(pending, StrValue(event["data"]))
    /\ gen_pc' = "anext"
    /\ UNCHANGED <<outside_gen, payload, user_input, event, e, received, produced,
                   raised_in, stream_async_calls>>

\* if "data" in event: yield event["data"]  -- the generator suspends
YieldData ==
    /\ program = "entrypoint"
    /\ gen_pc = "have_event"
    /\ "data" \in DOMAIN event
    /\ pending' = Append(pending, StrValue(event["data"]))
    /\ gen_pc' = "yield_data"
    /\ UNCHANGED <<outside_gen, payload, user_input, event, e, received, produced,
                   raised_in, stream_async_calls>>

\* if "data" in event: false, the loop goes on to the next event
SkipEvent ==
    /\ program = "entrypoint"
    /\ gen_pc = "have_event"
    /\ "data" \notin DOMAIN event
    /\ gen_pc' = "anext"
    /\ UNCHANGED <<outside_gen, payload, user_input, event, e, pending, received,
                   produced, raised_in, stream_async_calls>>

\* mutant: the handler prints the error and raises it again
YieldError_Reraise ==
    /\ program = "entrypoint"
    /\ gen_pc = "except"
    /\ gen_pc' = "raised"
    /\ UNCHANGED <<outside_gen, payload, user_input, event, e, pending, received,
                   produced, raised_in, stream_async_calls>>

\* except Exception as e: build error_response, print it, yield it
YieldError ==
    /\ program = "entrypoint"
    /\ gen_pc = "except"
    /\ pending' = Append(pending, ErrorResponse(e))
    /\ gen_pc' = "yield_error"
    /\ UNCHANGED <<outside_gen, payload, user_input, event, e, received, produced,
                   raised_in, stream_async_calls>>

\* the consumer receives the value of the yield its __anext__ awaited
ConsumerTake ==
    /\ program = "entrypoint"
    /\ pending # <<>>
    /\ received' = Append(received, Head(pending))
    /\ pending' = Tail(pending)
    /\ UNCHANGED <<outside_gen, gen_pc, payload, user_input, event, e, produced,
                   raised_in, stream_async_calls>>

\* mutant: the try statement sits inside the loop, which goes on after
\* the error response
ConsumerNext_LoopGoesOn ==
    /\ program = "entrypoint"
    /\ gen_pc \in {"yield_data", "yield_error"}
    /\ pending = <<>>
    /\ gen_pc' = "anext"
    /\ UNCHANGED <<outside_gen, payload, user_input, event, e, pending, received,
                   produced, raised_in, stream_async_calls>>

\* the consumer's next __anext__ resumes the generator after the yield
ConsumerNext ==
    /\ program = "entrypoint"
    /\ gen_pc \in {"yield_data", "yield_error"}
    /\ pending = <<>>
    /\ gen_pc' = IF gen_pc = "yield_data" THEN "anext" ELSE "done"
    /\ UNCHANGED <<outside_gen, payload, user_input, event, e, pending, received,
                   produced, raised_in, stream_async_calls>>

GenNext ==
    \/ StartGenerator
    \/ CallStreamAsync
    \/ CallStreamAsyncRaises
    \/ NextEvent
    \/ StreamExhausted
    \/ IterationRaises
    \/ YieldData
    \/ SkipEvent
    \/ YieldError
    \/ ConsumerTake
    \/ ConsumerNext

(***************************************************************************)
(* The code-interpreter notebook.  A run executes the cells from top to    *)
(* bottom; an exception that leaves a cell ends the run (no cell has a     *)
(* handler around its remote call).  Every remote call is a blocking call: *)
(* the kernel issues it, waits inside it, and goes on when it returned.    *)
(***************************************************************************)
InterpreterIds == {"interpreter-1", "interpreter-2"}
SessionIds == {"session-1", "session-2"}

\* mutant: the cleanup cell deletes the interpreter before it stops the
\* session
StepOrder_DeleteFirst == <<"config", "create", "start", "hello", "pip",
                           "read_file", "write", "mb", "cp", "ls", "delete",
                           "stop">>

\* the steps of a run, in the order of the cells: each is one remote call,
\* but for config, the configuration cell, and read_file, the local
\* statements that open the write-file cell
StepOrder == <<"config", "create", "start", "hello", "pip", "read_file",
               "write", "mb", "cp", "ls", "stop", "delete">>

StepIndex(step) == CHOOSE i \in 1..Len(StepOrder) : StepOrder[i] = step

\* mutant: the notebook ends after the last S3 command, without cleanup
NextStep_NoCleanup(step) ==
    IF step = "ls" \/ StepIndex(step) = Len(StepOrder) THEN "done"
    ELSE StepOrder[StepIndex(step) + 1]

\* the step that follows a step that completed
NextStep(step) ==
    IF StepIndex(step) = Len(StepOrder) THEN "done"
    ELSE StepOrder[StepIndex(step) + 1]

\* the cells that call call_tool, and the cells that parse its value
ToolCells == {"hello", "pip", "write", "mb", "cp", "ls"}
ParsingCells == {"hello", "pip"}

\* the remote operation of a step
Operation(step) ==
    CASE step = "create" -> "create_code_interpreter"
      [] step = "start"  -> "start_code_interpreter_session"
      [] step = "stop"   -> "stop_code_interpreter_session"
      [] step = "delete" -> "delete_code_interpreter"
      [] OTHER           -> "invoke_code_interpreter"

\* the value of local_file_content: not bound, the file object bound by
\* the with statement, the text read from local_file, or the text an
\* earlier execution of the cell in the same kernel left behind
Unbound == "<unbound>"
FileHandle == "<file object>"
FileText == "print('stats')"
StaleText == "print('stats of an earlier execution')"

\* int(time.time()) when the configuration cell runs
Times == {1752411395, 1752411396}
region == "us-west-2"

\* the tool a cell names in its call of call_tool
ToolName(step) == IF step = "write" THEN "writeFiles" ELSE "executeCommand"

\* the JSON values an event carries: str, bool, list, and dict with its
\* items in order
PyStr(s) == [t |-> "str", v |-> s]
PyBool(b) == [t |-> "bool", v |-> b]
PyList(elems) == [t |-> "list", v |-> elems]
PyDict(items) == [t |-> "dict", v |-> items]

\* d.keys() and d[key] of a dict
Keys(d) == {d.v[i][1] : i \in DOMAIN d.v}
Lookup(d, key) == d.v[CHOOSE i \in DOMAIN d.v : d.v[i][1] = key][2]

\* results of a tool invocation: with and without structuredContent
Results ==
    {PyDict(<< <<"content",
                 PyList(<<PyDict(<< <<"type", PyStr("text")>>,
                                    <<"text", PyStr("Hello World")>> >>)>>)>>,
               <<"structuredContent",
                 PyDict(<< <<"stdout", PyStr("Hello World")>> >>)>>,
               <<"isError", PyBool(FALSE)>> >>),
     PyDict(<< <<"content", PyList(<<>>)>>,
               <<"isError", PyBool(TRUE)>> >>)}

\* the response streams: up to MaxStreamEvents events {"result": ...}
ResponseStreams ==
    UNION {[1..n -> {[result |-> r] : r \in Results}] :
              n \in 0..MaxStreamEvents}

\* a JSON text is a sequence of tokens; "ws" is the white space that
\* indent=2 puts after an opening bracket, after a comma and before a
\* closing bracket
Tok(kind, text) == [kind |-> kind, text |-> text]
Ws == Tok("ws", "")

RECURSIVE Encode(_)
RECURSIVE EncodeItems(_, _)
\* the items (of a dict) or elements (of a list), separated by commas
EncodeItems(seq, is_dict) ==
    IF seq = <<>> THEN <<>>
    ELSE LET first == IF is_dict
                      THEN <<Tok("string", seq[1][1]), Tok(":", ""), Ws>>
                           \o Encode(seq[1][2])
                      ELSE Encode(seq[1])
         IN  IF Len(seq) = 1 THEN first
             ELSE first \o <<Tok(",", ""), Ws>> \o EncodeItems(Tail(seq), is_dict)

\* JSONEncoder with indent=2
Encode(obj) ==
    CASE obj.t = "str"  -> <<Tok("string", obj.v)>>
      [] obj.t = "bool" -> <<Tok(IF obj.v THEN "true" ELSE "false", "")>>
      [] obj.t = "list" ->
            IF obj.v = <<>> THEN <<Tok("[", ""), Tok("]", "")>>
            ELSE <<Tok("[", ""), Ws>> \o EncodeItems(obj.v, FALSE)
                 \o <<Ws, Tok("]", "")>>
      [] obj.t = "dict" ->
            IF obj.v = <<>> THEN <<Tok("{", ""), Tok("}", "")>>
            ELSE <<Tok("{", ""), Ws>> \o EncodeItems(obj.v, TRUE)
                 \o <<Ws, Tok("}", "")>>

\* the decoder skips white space before a token
RECURSIVE SkipWs(_)
SkipWs(toks) ==
    IF toks # <<>> /\ Head(toks).kind = "ws" THEN SkipWs(Tail(toks))
    ELSE toks

\* JSONDecoder: [value, rest] for the value the tokens start with
RECURSIVE Decode_value(_)
RECURSIVE Decode_members(_, _)
RECURSIVE Decode_elements(_, _)
Decode_members(toks, items) ==
    LET ts == SkipWs(toks)
    IN  IF Head(ts).kind = "}"
        THEN [value |-> PyDict(items), rest |-> Tail(ts)]
        ELSE IF Head(ts).kind = ","
        THEN Decode_members(Tail(ts), items)
        ELSE LET key == Head(ts).text
                 after_colon == Tail(SkipWs(Tail(ts)))
                 r == Decode_value(after_colon)
             IN  Decode_members(r.rest, Append(items, <<key, r.value>>))

Decode_elements(toks, elems) ==
    LET ts == SkipWs(toks)
    IN  IF Head(ts).kind = "]"
        THEN [value |-> PyList(elems), rest |-> Tail(ts)]
        ELSE IF Head(ts).kind = ","
        THEN Decode_elements(Tail(ts), elems)
        ELSE LET r == Decode_value(ts)
             IN  Decode_elements(r.rest, Append(elems, r.value))

Decode_value(toks) ==
    LET ts == SkipWs(toks)
        h == Head(ts)
    IN  CASE h.kind = "string" -> [value |-> PyStr(h.text), rest |-> Tail(ts)]
          [] h.kind = "true"   -> [value |-> PyBool(TRUE), rest |-> Tail(ts)]
          [] h.kind = "false"  -> [value |-> PyBool(FALSE), rest |-> Tail(ts)]
          [] h.kind = "{"      -> Decode_members(Tail(ts), <<>>)
          [] h.kind = "["      -> Decode_elements(Tail(ts), <<>>)

\* json.dumps(obj, indent=2) is a str; json.loads(s) decodes a str, and
\* None is not a str
NoneValue == [none |-> "None"]
JsonDumps(obj) == [json |-> Encode(obj)]
IsJsonText(v) == DOMAIN v = {"json"}
JsonLoads(v) == Decode_value(v["json"]).value

\* mutant: the loop of call_tool runs to the end of the stream and the
\* result of the last event is returned
call_tool_LastEvent(stream) ==
    IF stream = <<>> THEN NoneValue
    ELSE JsonDumps(stream[Len(stream)]["result"])

\* mutant: over an empty stream call_tool serializes an empty result
call_tool_EmptyResult(stream) ==
    IF stream = <<>> THEN JsonDumps(PyDict(<<>>))
    ELSE JsonDumps(stream[1]["result"])

\* call_tool, after the remote call returned: the loop returns inside its
\* first iteration, and falls off the end (None) over an empty stream
call_tool(stream) ==
    IF stream = <<>> THEN NoneValue
    ELSE JsonDumps(stream[1]["result"])

\* the events call_tool takes from response["stream"]
EventsRead(stream) == IF stream = <<>> THEN 0 ELSE 1

\* the statements of a cell after call_tool returned v raise: json.loads of
\* None, or a result without ['structuredContent']['stdout']
RaisesAfterCallTool(step, v) ==
    /\ step \in ParsingCells
    /\ \/ ~IsJsonText(v)
       \/ "structuredContent" \notin Keys(JsonLoads(v))
       \/ "stdout" \notin Keys(Lookup(JsonLoads(v), "structuredContent"))

NoStream == <<[none |-> "None"]>>

\* a fresh kernel, or one in which the write-file cell ran before
CIInit ==
    /\ outstanding = <<>>
    /\ calls = <<>>
    /\ ci_pc = StepOrder[1]
    /\ ci_in_call = FALSE
    /\ ci_halted_in = None
    /\ interpreter_id = None
    /\ session_id = None
    /\ local_file_content \in IF program = "interpreter"
                              THEN {Unbound, StaleText} ELSE {Unbound}
    /\ unique_bucket_name = None
    /\ s3_path = None
    /\ interpreter_response = NoneValue
    /\ session_response = NoneValue
    /\ files_to_create = <<>>
    /\ response = NoStream
    /\ events_read = 0
    /\ command_response = NoneValue
    /\ command_results = NoneValue

\* mutant: the list cell names the bucket, not its s3:// path
Arguments_ListsBucketName(step) ==
    CASE step = "hello" -> [command |-> <<"echo 'Hello World'">>]
      [] step = "pip"   -> [command |-> <<"pip install boto3">>]
      [] step = "write" -> [content |-> files_to_create]
      [] step = "mb"    ->
            [command |-> <<"aws s3 mb ", s3_path, " --region ", region>>]
      [] step = "cp"    ->
            [command |-> <<"aws s3 cp ", files_to_create[1]["path"], " ",
                           s3_path>>]
      [] step = "ls"    -> [command |-> <<"aws s3 ls ", unique_bucket_name>>]

\* the arguments a cell gives to call_tool; a command is the sequence of
\* the parts of its f-string, literal text and formatted values in turn
Arguments(step) ==
    CASE step = "hello" -> [command |-> <<"echo 'Hello World'">>]
      [] step = "pip"   -> [command |-> <<"pip install boto3">>]
      [] step = "write" -> [content |-> files_to_create]
      [] step = "mb"    ->
            [command |-> <<"aws s3 mb ", s3_path, " --region ", region>>]
      [] step = "cp"    ->
            [command |-> <<"aws s3 cp ", files_to_create[1]["path"], " ",
                           s3_path>>]
      [] step = "ls"    -> [command |-> <<"aws s3 ls ", s3_path>>]

\* a remote call as the service sees it: the operation, the ids it names
\* and, for invoke_code_interpreter, the tool and its arguments
LogEntry(op, ev, step) ==
    [op |-> op, ev |-> ev, step |-> step,
     interpreter |-> interpreter_id,
     session |-> IF op = "create_code_interpreter"
                    \/ op = "delete_code_interpreter"
                 THEN None ELSE session_id,
     name |-> IF step \in ToolCells THEN ToolName(step) ELSE None,
     arguments |-> IF step \in ToolCells THEN Arguments(step) ELSE NoneValue]

\* the configuration cell
ConfigurationSetup ==
    /\ program = "interpreter"
    /\ ci_pc = "config"
    /\ \E now \in Times :
          unique_bucket_name' = "amzn-bucket-" \o ToString(now)
    /\ s3_path' = "s3://" \o unique_bucket_name'
    /\ ci_pc' = NextStep("config")
    /\ UNCHANGED <<outside_ci, remote_vars, ci_in_call, ci_halted_in,
                   interpreter_id, session_id, local_file_content,
                   response_vars, files_to_create, tool_vars>>

\* s without its last occurrence of op
RECURSIVE RemoveLast(_, _)
RemoveLast(s, op) ==
    IF s = <<>> THEN <<>>
    ELSE IF s[Len(s)] = op THEN SubSeq(s, 1, Len(s) - 1)
    ELSE Append(RemoveLast(SubSeq(s, 1, Len(s) - 1), op), s[Len(s)])

\* the kernel issues the remote call of a step and blocks in it
Issue(step) ==
    /\ program = "interpreter"
    /\ ci_pc = step
    /\ ~ci_in_call
    /\ ci_in_call' = TRUE
    /\ outstanding' = Append(outstanding, Operation(step))
    /\ calls' = Append(calls, LogEntry(Operation(step), "call", step))
    /\ UNCHANGED <<outside_ci, ci_pc, ci_halted_in>>

\* the remote call of a step returns; the run goes on at `goes_to`
Return(step, goes_to) ==
    /\ program = "interpreter"
    /\ ci_pc = step
    /\ ci_in_call
    /\ ci_in_call' = FALSE
    /\ outstanding' = RemoveLast(outstanding, Operation(step))
    /\ calls' = Append(calls, LogEntry(Operation(step), "return", step))
    /\ ci_pc' = goes_to
    /\ ci_halted_in' = IF goes_to = "halted" THEN step ELSE ci_halted_in
    /\ UNCHANGED outside_ci

\* the remote call of a step raises: the exception leaves the cell
Raise(step) ==
    /\ program = "interpreter"
    /\ ci_pc = step
    /\ ci_in_call
    /\ ci_in_call' = FALSE
    /\ outstanding' = RemoveLast(outstanding, Operation(step))
    /\ calls' = Append(calls, LogEntry(Operation(step), "raise", step))
    /\ ci_pc' = "halted"
    /\ ci_halted_in' = step
    /\ UNCHANGED outside_ci

\* cp_client.create_code_interpreter(...)
CreateCodeInterpreter ==
    /\ Issue("create")
    /\ UNCHANGED <<interpreter_id, session_id, local_file_content,
                   config_vars, response_vars, files_to_create, tool_vars>>

CreateCodeInterpreterReturns ==
    /\ Return("create", NextStep("create"))
    /\ \E id \in InterpreterIds :
          interpreter_response' = [codeInterpreterId |-> id]
    /\ interpreter_id' = interpreter_response'["codeInterpreterId"]
    /\ UNCHANGED <<session_id, local_file_content, config_vars,
                   session_response, files_to_create, tool_vars>>

CreateCodeInterpreterRaises ==
    /\ Raise("create")
    /\ UNCHANGED <<interpreter_id, session_id, local_file_content,
                   config_vars, response_vars, files_to_create, tool_vars>>

\* dp_client.start_code_interpreter_session(...)
StartSession ==
    /\ Issue("start")
    /\ UNCHANGED <<interpreter_id, session_id, local_file_content,
                   config_vars, response_vars, files_to_create, tool_vars>>

StartSessionReturns ==
    /\ Return("start", NextStep("start"))
    /\ \E id \in SessionIds : session_response' = [sessionId |-> id]
    /\ session_id' = session_response'["sessionId"]
    /\ UNCHANGED <<interpreter_id, local_file_content, config_vars,
                   interpreter_response, files_to_create, tool_vars>>

StartSessionRaises ==
    /\ Raise("start")
    /\ UNCHANGED <<interpreter_id, session_id, local_file_content,
                   config_vars, response_vars, files_to_create, tool_vars>>

\* the local statements of the write-file cell: the try block opens and
\* reads local_file, its handlers print, and files_to_create is built.
\* When open fails the name keeps what it held, and unbound it raises
\* NameError; when read fails the name stays bound to the file object.
ReadLocalFile ==
    /\ program = "interpreter"
    /\ ci_pc = "read_file"
    /\ \E outcome \in {"read", "open_fails", "read_fails"} :
          /\ local_file_content' =
                CASE outcome = "read"       -> FileText
                  [] outcome = "read_fails" -> FileHandle
                  [] OTHER                  -> local_file_content
          /\ ci_pc' = IF local_file_content' = Unbound THEN "halted"
                      ELSE NextStep("read_file")
          /\ ci_halted_in' = IF local_file_content' = Unbound THEN "read_file"
                             ELSE ci_halted_in
          /\ files_to_create' =
                IF local_file_content' = Unbound THEN files_to_create
                ELSE <<[path |-> "stats.py", text |-> local_file_content']>>
    /\ UNCHANGED <<outside_ci, remote_vars, ci_in_call, interpreter_id,
                   session_id, config_vars, response_vars, tool_vars>>

\* call_tool(tool_name, arguments): dp_client.invoke_code_interpreter(...)
CallTool(step) ==
    /\ step \in ToolCells
    /\ Issue(step)
    /\ UNCHANGED <<interpreter_id, session_id, local_file_content,
                   config_vars, response_vars, files_to_create, tool_vars>>

\* mutant: call_tool takes the session id to use from now on from the
\* response of the invocation
CallToolReturns_RebindsSession(step) ==
    /\ step \in ToolCells
    /\ ci_pc = step
    /\ ci_in_call
    /\ \E stream \in ResponseStreams :
          /\ Return(step, NextStep(step))
          /\ response' = stream
          /\ events_read' = EventsRead(stream)
          /\ command_response' = call_tool(stream)
    /\ session_id' \in SessionIds
    /\ UNCHANGED <<interpreter_id, local_file_content, config_vars,
                   response_vars, files_to_create, command_results>>

\* invoke_code_interpreter returns a response: call_tool returns the first
\* result or None, and the rest of the cell runs
CallToolReturns(step) ==
    /\ step \in ToolCells
    /\ ci_pc = step
    /\ ci_in_call
    /\ \E stream \in ResponseStreams :
          LET returned == call_tool(stream)
          IN  /\ Return(step,
                        IF RaisesAfterCallTool(step, returned)
                        THEN "halted" ELSE NextStep(step))
              /\ response' = stream
              /\ events_read' = EventsRead(stream)
              /\ command_response' = returned
              /\ command_results' =
                    IF step \in ParsingCells /\ IsJsonText(returned)
                    THEN JsonLoads(returned)
                    ELSE command_results
    /\ UNCHANGED <<interpreter_id, session_id, local_file_content,
                   config_vars, response_vars, files_to_create>>

\* mutant: call_tool retries the invocation when it raised
CallToolRaises_Retry(step) ==
    /\ step \in ToolCells
    /\ program = "interpreter"
    /\ ci_pc = step
    /\ ci_in_call
    /\ ci_in_call' = FALSE
    /\ outstanding' = RemoveLast(outstanding, Operation(step))
    /\ calls' = Append(calls, LogEntry(Operation(step), "raise", step))
    /\ UNCHANGED <<outside_ci, ci_pc, ci_halted_in, interpreter_id, session_id,
                   local_file_content, config_vars, response_vars,
                   files_to_create, tool_vars>>

\* invoke_code_interpreter (or reading its stream) raises
CallToolRaises(step) ==
    /\ step \in ToolCells
    /\ Raise(step)
    /\ UNCHANGED <<interpreter_id, session_id, local_file_content,
                   config_vars, response_vars, files_to_create, tool_vars>>

\* dp_client.stop_code_interpreter_session(...)
StopSession ==
    /\ Issue("stop")
    /\ UNCHANGED <<interpreter_id, session_id, local_file_content,
                   config_vars, response_vars, files_to_create, tool_vars>>

StopSessionReturns ==
    /\ Return("stop", NextStep("stop"))
    /\ UNCHANGED <<interpreter_id, session_id, local_file_content,
                   config_vars, response_vars, files_to_create, tool_vars>>

StopSessionRaises ==
    /\ Raise("stop")
    /\ UNCHANGED <<interpreter_id, session_id, local_file_content,
                   config_vars, response_vars, files_to_create, tool_vars>>

\* cp_client.delete_code_interpreter(...)
DeleteCodeInterpreter ==
    /\ Issue("delete")
    /\ UNCHANGED <<interpreter_id, session_id, local_file_content,
                   config_vars, response_vars, files_to_create, tool_vars>>

DeleteCodeInterpreterReturns ==
    /\ Return("delete", NextStep("delete"))
    /\ UNCHANGED <<interpreter_id, session_id, local_file_content,
                   config_vars, response_vars, files_to_create, tool_vars>>

DeleteCodeInterpreterRaises ==
    /\ Raise("delete")
    /\ UNCHANGED <<interpreter_id, session_id, local_file_content,
                   config_vars, response_vars, files_to_create, tool_vars>>

CINext ==
    \/ ConfigurationSetup
    \/ CreateCodeInterpreter
    \/ CreateCodeInterpreterReturns
    \/ CreateCodeInterpreterRaises
    \/ StartSession
    \/ StartSessionReturns
    \/ StartSessionRaises
    \/ ReadLocalFile
    \/ \E step \in ToolCells : CallTool(step)
    \/ \E step \in ToolCells : CallToolReturns(step)
    \/ \E step \in ToolCells : CallToolRaises(step)
    \/ StopSession
    \/ StopSessionReturns
    \/ StopSessionRaises
    \/ DeleteCodeInterpreter
    \/ DeleteCodeInterpreterReturns
    \/ DeleteCodeInterpreterRaises

(***************************************************************************)
(* The browser notebook: the client setup cell, the session cell (a try    *)
(* statement with a finally clause) and the cleanup cell.  The awaited     *)
(* calls block the cell; a constructor is local and returns or raises.     *)
(*   br_pc: "client_start"   client.start()                                *)
(*          "ws_headers"     client.generate_ws_headers()                  *)
(*          "profile"        BrowserProfile(...)                           *)
(*          "session"        BrowserSession(...)                           *)
(*          "session_start"  await browser_session.start()                 *)
(*          "bedrock_chat"   ChatBedrockConverse(...)                      *)
(*          "agent"          run_browser_task: Agent(...)                  *)
(*          "agent_run"      run_browser_task: await agent.run()           *)
(*          "finally"        the finally clause                            *)
(*          "close"          await browser_session.close()                 *)
(*          "client_stop"    client.stop()                                 *)
(***************************************************************************)
BrowserSessionObject == "BrowserSession"
ChatObject == "ChatBedrockConverse"

BrInit ==
    /\ br_pc = "client_start"
    /\ br_in_call = FALSE
    /\ browser_session = None
    /\ bedrock_chat = None
    /\ br_exc = NoException
    /\ close_attempts = 0
    /\ ws_url = None
    /\ headers = None
    /\ profile_headers = None
    /\ cdp_url = None
    /\ outcome_messages = <<>>

\* an awaited or blocking call is issued at position pos
BrIssue(pos, op) ==
    /\ program = "browser"
    /\ br_pc = pos
    /\ ~br_in_call
    /\ br_in_call' = TRUE
    /\ outstanding' = Append(outstanding, op)
    /\ calls' = Append(calls, LogEntry(op, "call", pos))
    /\ UNCHANGED <<outside_br, br_pc>>

\* the call issued at pos ends with ev ("return" or "raise")
BrComplete(pos, op, ev, goes_to) ==
    /\ program = "browser"
    /\ br_pc = pos
    /\ br_in_call
    /\ br_in_call' = FALSE
    /\ outstanding' = RemoveLast(outstanding, op)
    /\ calls' = Append(calls, LogEntry(op, ev, pos))
    /\ br_pc' = goes_to
    /\ UNCHANGED outside_br

\* a local statement at pos ends and the cell goes on at goes_to
BrLocal(pos, goes_to) ==
    /\ program = "browser"
    /\ br_pc = pos
    /\ ~br_in_call
    /\ br_pc' = goes_to
    /\ UNCHANGED <<outside_br, remote_vars, br_in_call>>

\* mutant: the finally clause swallows the exception that left the try
\* block, and the cleanup cell runs
AfterFinally_Swallows(ex) == "client_stop"

\* where the session cell ends once the finally clause is through: the
\* exception that left the try block is raised again
AfterFinally(ex) == IF ex = NoException THEN "client_stop" ELSE "halted"

\* client.start()
ClientStart ==
    /\ BrIssue("client_start", "client.start")
    /\ UNCHANGED <<browser_session, bedrock_chat, br_exc, close_attempts,
                   ws_vars, outcome_messages>>

ClientStartReturns ==
    /\ BrComplete("client_start", "client.start", "return", "ws_headers")
    /\ UNCHANGED <<browser_session, bedrock_chat, br_exc, close_attempts,
                   ws_vars, outcome_messages>>

ClientStartRaises ==
    /\ BrComplete("client_start", "client.start", "raise", "halted")
    /\ UNCHANGED <<browser_session, bedrock_chat, br_exc, close_attempts,
                   ws_vars, outcome_messages>>

\* the pairs (ws_url, headers) that client.generate_ws_headers() returns
WsEndpoints == {<<"wss://browser-a/automation", "sigv4-a">>,
                <<"wss://browser-b/automation", "sigv4-b">>}

\* ws_url, headers = client.generate_ws_headers()
GenerateWsHeaders ==
    /\ program = "browser"
    /\ br_pc = "ws_headers"
    /\ ~br_in_call
    /\ \/ \E endpoint \in WsEndpoints :
             /\ calls' = calls \o
                    <<LogEntry("client.generate_ws_headers", "call", br_pc),
                      [op |-> "client.generate_ws_headers", ev |-> "return",
                       step |-> br_pc, value |-> endpoint]>>
             /\ ws_url' = endpoint[1]
             /\ headers' = endpoint[2]
             /\ br_pc' = "profile"
       \/ /\ calls' = calls \o
                    <<LogEntry("client.generate_ws_headers", "call", br_pc),
                      LogEntry("client.generate_ws_headers", "raise", br_pc)>>
          /\ br_pc' = "halted"
          /\ UNCHANGED <<ws_url, headers>>
    /\ UNCHANGED <<outside_br, outstanding, br_in_call, browser_session,
                   bedrock_chat, br_exc, close_attempts, profile_headers,
                   cdp_url, outcome_messages>>

\* browser_profile = BrowserProfile(...)
CreateBrowserProfile ==
    /\ BrLocal("profile", "session")
    /\ profile_headers' = headers
    /\ UNCHANGED <<browser_session, bedrock_chat, br_exc, close_attempts,
                   ws_url, headers, cdp_url, outcome_messages>>

CreateBrowserProfileRaises ==
    /\ BrLocal("profile", "finally")
    /\ br_exc' \in {ex \in Exceptions : ex.cls = "Exception"}
    /\ UNCHANGED <<browser_session, bedrock_chat, close_attempts,
                   ws_vars, outcome_messages>>

\* browser_session = BrowserSession(...)
CreateBrowserSession ==
    /\ BrLocal("session", "session_start")
    /\ browser_session' = BrowserSessionObject
    /\ cdp_url' = ws_url
    /\ UNCHANGED <<bedrock_chat, br_exc, close_attempts, ws_url, headers,
                   profile_headers, outcome_messages>>

CreateBrowserSessionRaises ==
    /\ BrLocal("session", "finally")
    /\ br_exc' \in {ex \in Exceptions : ex.cls = "Exception"}
    /\ UNCHANGED <<browser_session, bedrock_chat, close_attempts,
                   ws_vars, outcome_messages>>

\* mutant: browser_session.start() is scheduled and not awaited
BrowserSessionStart_NotAwaited ==
    /\ program = "browser"
    /\ br_pc = "session_start"
    /\ ~br_in_call
    /\ outstanding' = Append(outstanding, "browser_session.start")
    /\ calls' = Append(calls, LogEntry("browser_session.start", "call", br_pc))
    /\ br_pc' = "bedrock_chat"
    /\ UNCHANGED <<outside_br, br_in_call, browser_session, bedrock_chat,
                   br_exc, close_attempts,
                   ws_vars, outcome_messages>>

\* await browser_session.start()
BrowserSessionStart ==
    /\ BrIssue("session_start", "browser_session.start")
    /\ UNCHANGED <<browser_session, bedrock_chat, br_exc, close_attempts,
                   ws_vars, outcome_messages>>

BrowserSessionStartReturns ==
    /\ BrComplete("session_start", "browser_session.start", "return",
                  "bedrock_chat")
    /\ UNCHANGED <<browser_session, bedrock_chat, br_exc, close_attempts,
                   ws_vars, outcome_messages>>

BrowserSessionStartRaises ==
    /\ BrComplete("session_start", "browser_session.start", "raise",
                  "finally")
    /\ br_exc' \in Exceptions
    /\ UNCHANGED <<browser_session, bedrock_chat, close_attempts,
                   ws_vars, outcome_messages>>

\* bedrock_chat = ChatBedrockConverse(...)
CreateBedrockChat ==
    /\ BrLocal("bedrock_chat", "agent")
    /\ bedrock_chat' = ChatObject
    /\ UNCHANGED <<browser_session, br_exc, close_attempts,
                   ws_vars, outcome_messages>>

CreateBedrockChatRaises ==
    /\ BrLocal("bedrock_chat", "finally")
    /\ br_exc' \in {ex \in Exceptions : ex.cls = "Exception"}
    /\ UNCHANGED <<browser_session, bedrock_chat, close_attempts,
                   ws_vars, outcome_messages>>

\* the two messages run_browser_task prints about its outcome
SuccessMessage == "Task completed successfully!"
ErrorMessage(ex) == "Error during task execution: " \o Str(ex)

\* run_browser_task: agent = Agent(...)
CreateAgent ==
    /\ BrLocal("agent", "agent_run")
    /\ UNCHANGED <<browser_session, bedrock_chat, br_exc, close_attempts,
                   ws_vars, outcome_messages>>

\* mutant: Agent(...) is created before the try statement, and what it
\* raises leaves the function
CreateAgentRaises_OutsideTry ==
    /\ BrLocal("agent", "finally")
    /\ br_exc' \in {x \in Exceptions : x.cls = "Exception"}
    /\ UNCHANGED <<browser_session, bedrock_chat, close_attempts, ws_vars,
                   outcome_messages>>

\* run_browser_task: Agent(...) raises, the handler prints the error and
\* the function returns
CreateAgentRaises ==
    /\ BrLocal("agent", "finally")
    /\ \E ex \in {x \in Exceptions : x.cls = "Exception"} :
          outcome_messages' = Append(outcome_messages, ErrorMessage(ex))
    /\ UNCHANGED <<browser_session, bedrock_chat, br_exc, close_attempts,
                   ws_vars>>

\* run_browser_task: await agent.run()
AgentRun ==
    /\ BrIssue("agent_run", "agent.run")
    /\ UNCHANGED <<browser_session, bedrock_chat, br_exc, close_attempts,
                   ws_vars, outcome_messages>>

\* agent.run() returned: the success message is printed
AgentRunReturns ==
    /\ BrComplete("agent_run", "agent.run", "return", "finally")
    /\ outcome_messages' = Append(outcome_messages, SuccessMessage)
    /\ UNCHANGED <<browser_session, bedrock_chat, br_exc, close_attempts,
                   ws_vars>>

\* agent.run() raised: `except Exception` of run_browser_task prints the
\* error; an exception outside Exception leaves the function and the try
\* block of the cell
AgentRunRaises ==
    /\ BrComplete("agent_run", "agent.run", "raise", "finally")
    /\ \E ex \in Exceptions :
          IF CaughtByExceptException(ex)
          THEN /\ outcome_messages' =
                     Append(outcome_messages, ErrorMessage(ex))
               /\ UNCHANGED br_exc
          ELSE /\ br_exc' = ex
               /\ UNCHANGED outcome_messages
    /\ UNCHANGED <<browser_session, bedrock_chat, close_attempts, ws_vars>>

\* mutant: the finally clause closes the session only when the chat model
\* was created
ShouldClose_WhenChatCreated == bedrock_chat # None

\* finally: `if browser_session:`
ShouldClose == browser_session # None

\* finally: no session object, nothing to close
FinallyNothingToClose ==
    /\ ~ShouldClose
    /\ BrLocal("finally", AfterFinally(br_exc))
    /\ UNCHANGED <<browser_session, bedrock_chat, br_exc, close_attempts,
                   ws_vars, outcome_messages>>

\* finally: with suppress(Exception): await browser_session.close()
BrowserSessionClose ==
    /\ ShouldClose
    /\ program = "browser"
    /\ br_pc = "finally"
    /\ ~br_in_call
    /\ br_pc' = "close"
    /\ br_in_call' = TRUE
    /\ close_attempts' = close_attempts + 1
    /\ outstanding' = Append(outstanding, "browser_session.close")
    /\ calls' = Append(calls, LogEntry("browser_session.close", "call",
                                       "close"))
    /\ UNCHANGED <<outside_br, browser_session, bedrock_chat, br_exc,
                   ws_vars, outcome_messages>>

BrowserSessionCloseReturns ==
    /\ BrComplete("close", "browser_session.close", "return",
                  AfterFinally(br_exc))
    /\ UNCHANGED <<browser_session, bedrock_chat, br_exc, close_attempts,
                   ws_vars, outcome_messages>>

\* close() raised: suppress(Exception) swallows an Exception; another
\* exception leaves the finally clause in place of the pending one
BrowserSessionCloseRaises ==
    /\ \E ex \in Exceptions :
          /\ br_exc' = IF CaughtByExceptException(ex) THEN br_exc ELSE ex
          /\ BrComplete("close", "browser_session.close", "raise",
                        AfterFinally(br_exc'))
    /\ UNCHANGED <<browser_session, bedrock_chat, close_attempts,
                   ws_vars, outcome_messages>>

\* client.stop()
ClientStop ==
    /\ BrIssue("client_stop", "client.stop")
    /\ UNCHANGED <<browser_session, bedrock_chat, br_exc, close_attempts,
                   ws_vars, outcome_messages>>

ClientStopReturns ==
    /\ BrComplete("client_stop", "client.stop", "return", "done")
    /\ UNCHANGED <<browser_session, bedrock_chat, br_exc, close_attempts,
                   ws_vars, outcome_messages>>

ClientStopRaises ==
    /\ BrComplete("client_stop", "client.stop", "raise", "halted")
    /\ UNCHANGED <<browser_session, bedrock_chat, br_exc, close_attempts,
                   ws_vars, outcome_messages>>

BrNext ==
    \/ ClientStart
    \/ ClientStartReturns
    \/ ClientStartRaises
    \/ GenerateWsHeaders
    \/ CreateBrowserProfile
    \/ CreateBrowserProfileRaises
    \/ CreateBrowserSession
    \/ CreateBrowserSessionRaises
    \/ BrowserSessionStart
    \/ BrowserSessionStartReturns
    \/ BrowserSessionStartRaises
    \/ CreateBedrockChat
    \/ CreateBedrockChatRaises
    \/ CreateAgent
    \/ CreateAgentRaises
    \/ AgentRun
    \/ AgentRunReturns
    \/ AgentRunRaises
    \/ FinallyNothingToClose
    \/ BrowserSessionClose
    \/ BrowserSessionCloseReturns
    \/ BrowserSessionCloseRaises
    \/ ClientStop
    \/ ClientStopReturns
    \/ ClientStopRaises

(***************************************************************************)
(* The boto3 client cell of the streaming notebook: invoke_agent_runtime,  *)
(* then, for a text/event-stream response, the loop over iter_lines.       *)
(* A line is a bytes object, modelled as a sequence of byte values; a str  *)
(* is a sequence of characters.  The lines are ASCII, as the SDK writes    *)
(* them.                                                                   *)
(***************************************************************************)
\* bytes.decode("utf-8") on ASCII bytes
Chr(b) ==
    CASE b = 100 -> "d"
      [] b = 97  -> "a"
      [] b = 116 -> "t"
      [] b = 58  -> ":"
      [] b = 32  -> " "
      [] b = 34  -> "\""
      [] b = 120 -> "x"
      [] b = 121 -> "y"
      [] b = 123 -> "{"
      [] b = 125 -> "}"
      [] b = 44  -> ","
      [] b = 95  -> "_"
      [] b = 101 -> "e"
      [] b = 109 -> "m"
      [] b = 111 -> "o"
      [] b = 112 -> "p"
      [] b = 114 -> "r"
      [] b = 115 -> "s"

Decode(bytes) == [i \in 1..Len(bytes) |-> Chr(bytes[i])]

\* the lines of a response: each one of `data: `, `data:` or nothing,
\* followed by one of (nothing), x, "x", x"y
LinePrefixes == {<<100, 97, 116, 97, 58, 32>>, <<100, 97, 116, 97, 58>>, <<>>}
LineBodies == {<<>>, <<120>>, <<34, 120, 34>>, <<120, 34, 121>>}
\* the line of the chunk that carries the error_response of the entrypoint,
\* here with str(e) = x:  data: {"error": "x", "type": "stream_error"}
StreamErrorLine ==
    <<100, 97, 116, 97, 58, 32>> \o
    <<123, 34, 101, 114, 114, 111, 114, 34, 58, 32, 34, 120, 34, 44, 32>> \o
    <<34, 116, 121, 112, 101, 34, 58, 32>> \o
    <<34, 115, 116, 114, 101, 97, 109, 95, 101, 114, 114, 111, 114, 34, 125>>

Lines == {p \o b : p \in LinePrefixes, b \in LineBodies} \cup {StreamErrorLine}

\* the contentType of a response, as the sequence of its parts; a response
\* may carry none
ContentTypes == {<<"text/event-stream">>,
                 <<"text/event-stream", "; charset=utf-8">>,
                 <<"application/json">>}
Responses == {[contentType |-> ct] : ct \in ContentTypes}
                 \cup {[statusCode |-> <<"200">>]}
NoResponse == [none |-> <<"None">>]

\* boto3_response.get("contentType", "")
GetContentType(r) == IF "contentType" \in DOMAIN r THEN r["contentType"] ELSE <<>>

\* "text/event-stream" in ...
IsEventStream(r) ==
    \E i \in 1..Len(GetContentType(r)) :
        GetContentType(r)[i] = "text/event-stream"

\* str.startswith
StartsWith(str, prefix) ==
    /\ Len(str) >= Len(prefix)
    /\ SubSeq(str, 1, Len(prefix)) = prefix

\* "data: "
DataPrefix == <<"d", "a", "t", "a", ":", " ">>

\* mutant: the slice starts one character early
AfterPrefix_OffByOne(str) == SubSeq(str, 6, Len(str))

\* line[6:]
AfterPrefix(str) == SubSeq(str, 7, Len(str))

\* str.replace('"', '')
IsNotQuote(c) == c # "\""
RemoveQuotes(str) == SelectSeq(str, IsNotQuote)

\* " ".join(list)
RECURSIVE JoinWithSpaces(_)
JoinWithSpaces(list) ==
    IF list = <<>> THEN <<>>
    ELSE IF Len(list) = 1 THEN list[1]
    ELSE list[1] \o <<" ">> \o JoinWithSpaces(Tail(list))

ClInit ==
    /\ cl_pc = "invoke"
    /\ boto3_response = NoResponse
    /\ lines = <<>>
    /\ content = <<>>
    /\ full_response = None
    /\ events = <<>>
    /\ cl_e = NoException
    /\ displayed = <<>>
    /\ printed = <<>>
    /\ cl_exc = NoException

\* agentcore_client.invoke_agent_runtime(...) returns; the cell tests the
\* content type and, for an event stream, sets content = []
InvokeAgentRuntime ==
    /\ program = "client"
    /\ cl_pc = "invoke"
    /\ boto3_response' \in Responses
    /\ cl_pc' = IF IsEventStream(boto3_response') THEN "iter_lines"
                ELSE "non_streaming"
    /\ UNCHANGED <<outside_cl, lines, content, full_response,
                   non_streaming_vars>>

\* agentcore_client.invoke_agent_runtime(...) raises
InvokeAgentRuntimeRaises ==
    /\ program = "client"
    /\ cl_pc = "invoke"
    /\ cl_pc' = "halted"
    /\ UNCHANGED <<outside_cl, boto3_response, lines, content, full_response,
                   non_streaming_vars>>

\* mutant: the loop stops at the chunk that carries the error response
ReadLine_StopsAtStreamError ==
    /\ program = "client"
    /\ cl_pc = "iter_lines"
    /\ Len(lines) < MaxLines
    /\ \E line \in Lines :
          /\ lines' = Append(lines, line)
          /\ cl_pc' = IF line = StreamErrorLine THEN "halted" ELSE cl_pc
          /\ content' =
                IF line # <<>> /\ line # StreamErrorLine
                   /\ StartsWith(Decode(line), DataPrefix)
                THEN Append(content, RemoveQuotes(AfterPrefix(Decode(line))))
                ELSE content
    /\ UNCHANGED <<outside_cl, boto3_response, full_response,
                   non_streaming_vars>>

\* one iteration of the loop over iter_lines: the body for one line
ReadLine ==
    /\ program = "client"
    /\ cl_pc = "iter_lines"
    /\ Len(lines) < MaxLines
    /\ \E line \in Lines :
          /\ lines' = Append(lines, line)
          /\ content' =
                IF line # <<>> /\ StartsWith(Decode(line), DataPrefix)
                THEN LET data == RemoveQuotes(AfterPrefix(Decode(line)))
                     IN  Append(content, RemoveQuotes(data))
                ELSE content
    /\ UNCHANGED <<outside_cl, cl_pc, boto3_response, full_response,
                   non_streaming_vars>>

\* reading the response body raises: the exception leaves the cell
IterLinesRaises ==
    /\ program = "client"
    /\ cl_pc = "iter_lines"
    /\ cl_pc' = "halted"
    /\ UNCHANGED <<outside_cl, boto3_response, lines, content, full_response,
                   non_streaming_vars>>

\* the response is exhausted: full_response is built and displayed
DisplayFullResponse ==
    /\ program = "client"
    /\ cl_pc = "iter_lines"
    /\ full_response' = JoinWithSpaces(content)
    /\ cl_pc' = "done"
    /\ UNCHANGED <<outside_cl, boto3_response, lines, content,
                   non_streaming_vars>>

\* the events of a response that is no event stream: "x", "", x, "x and
\* a byte that is no UTF-8
EventBodies == {<<34, 120, 34>>, <<34, 34>>, <<120>>, <<34, 120>>, <<255>>}
Bytes(b) == [type |-> "bytes", value |-> b]

\* f"Error reading EventStream: {e}"
ErrorReadingEventStream(ex) ==
    [type |-> "str", value |-> "Error reading EventStream: " \o Str(ex)]

\* bytes.decode("utf-8") succeeds
IsUtf8(bytes) == \A i \in 1..Len(bytes) : bytes[i] < 128

\* json.loads of a text over the alphabet of Chr: a JSON document is a
\* string literal, whose value is the text between its quotes
IsJsonDocument(str) ==
    /\ Len(str) >= 2
    /\ str[1] = "\"" /\ str[Len(str)] = "\""
    /\ \A i \in 2..(Len(str) - 1) : str[i] # "\""
JsonLoadsText(str) == SubSeq(str, 2, Len(str) - 1)

\* json.loads(events[0].decode("utf-8")) gives a value: a str has no
\* decode, and bytes must be UTF-8 and hold a JSON document
Parses(first) ==
    /\ first.type = "bytes"
    /\ IsUtf8(first.value)
    /\ IsJsonDocument(Decode(first.value))

\* for event in boto3_response.get("response", []): events.append(event)
ReadEvent ==
    /\ program = "client"
    /\ cl_pc = "non_streaming"
    /\ Len(events) < MaxResponseEvents
    /\ \E b \in EventBodies : events' = Append(events, Bytes(b))
    /\ UNCHANGED <<outside_cl, cl_pc, boto3_response, lines, content,
                   full_response, cl_e, displayed, printed, cl_exc>>

\* the response is exhausted
EventsExhausted ==
    /\ program = "client"
    /\ cl_pc = "non_streaming"
    /\ cl_pc' = "if_events"
    /\ UNCHANGED <<outside_cl, boto3_response, lines, content, full_response,
                   non_streaming_vars>>

\* mutant: the handler adds the error message to the events read so far
ReadEventsRaises_Appends ==
    /\ program = "client"
    /\ cl_pc = "non_streaming"
    /\ \E ex \in Exceptions :
          IF CaughtByExceptException(ex)
          THEN /\ cl_e' = ex
               /\ events' = Append(events, ErrorReadingEventStream(ex))
               /\ cl_pc' = "if_events"
               /\ UNCHANGED cl_exc
          ELSE /\ cl_exc' = ex
               /\ cl_pc' = "halted"
               /\ UNCHANGED <<cl_e, events>>
    /\ UNCHANGED <<outside_cl, boto3_response, lines, content, full_response,
                   displayed, printed>>

\* reading the events raises: `except Exception as e` replaces events by
\* the error message; an exception outside Exception leaves the cell
ReadEventsRaises ==
    /\ program = "client"
    /\ cl_pc = "non_streaming"
    /\ \E ex \in Exceptions :
          IF CaughtByExceptException(ex)
          THEN /\ cl_e' = ex
               /\ events' = <<ErrorReadingEventStream(ex)>>
               /\ cl_pc' = "if_events"
               /\ UNCHANGED cl_exc
          ELSE /\ cl_exc' = ex
               /\ cl_pc' = "halted"
               /\ UNCHANGED <<cl_e, events>>
    /\ UNCHANGED <<outside_cl, boto3_response, lines, content, full_response,
                   displayed, printed>>

\* if events: the list is empty and the cell ends
NothingToDisplay ==
    /\ program = "client"
    /\ cl_pc = "if_events"
    /\ events = <<>>
    /\ cl_pc' = "done"
    /\ UNCHANGED <<outside_cl, boto3_response, lines, content, full_response,
                   non_streaming_vars>>

\* response_data = json.loads(events[0].decode("utf-8"));
\* display(Markdown(response_data))
DisplayResponseData ==
    /\ program = "client"
    /\ cl_pc = "if_events"
    /\ events # <<>>
    /\ Parses(events[1])
    /\ displayed' = Append(displayed, JsonLoadsText(Decode(events[1].value)))
    /\ cl_pc' = "done"
    /\ UNCHANGED <<outside_cl, boto3_response, lines, content, full_response,
                   events, cl_e, printed, cl_exc>>

\* decoding, parsing or displaying raises: the bare except clause prints
\* the first event
PrintRawResponse ==
    /\ program = "client"
    /\ cl_pc = "if_events"
    /\ events # <<>>
    /\ printed' = Append(printed, events[1])
    /\ cl_pc' = "done"
    /\ UNCHANGED <<outside_cl, boto3_response, lines, content, full_response,
                   events, cl_e, displayed, cl_exc>>

ClNext ==
    \/ ReadEvent
    \/ EventsExhausted
    \/ ReadEventsRaises
    \/ NothingToDisplay
    \/ DisplayResponseData
    \/ PrintRawResponse
    \/ InvokeAgentRuntime
    \/ InvokeAgentRuntimeRaises
    \/ ReadLine
    \/ IterLinesRaises
    \/ DisplayFullResponse

(***************************************************************************)
(* The cells of the streaming notebook, run from top to bottom; no cell    *)
(* has a handler around its remote call, so a call that raises ends the    *)
(* run.                                                                    *)
(*   nb_pc: "create_role"     create_agentcore_role(agent_name=...)        *)
(*          "configure"       agentcore_runtime.configure(...)             *)
(*          "launch"          agentcore_runtime.launch()                   *)
(*          "status"          agentcore_runtime.status(), before the loop  *)
(*          "while"           the test of the while loop                   *)
(*          "poll"            time.sleep(10); agentcore_runtime.status()   *)
(*          "invoke"          agentcore_runtime.invoke({...})              *)
(*          "invoke_agent_runtime"   the boto3 client cell                 *)
(*          "delete_agent_runtime", "delete_repository",                   *)
(*          "list_role_policies", "for", "delete_role_policy",             *)
(*          "delete_role"     the cleanup cell                             *)
(***************************************************************************)
\* the statuses of the runtime endpoint
Statuses == {"CREATING", "UPDATING", "READY", "CREATE_FAILED",
             "DELETE_FAILED", "UPDATE_FAILED"}

\* mutant: the loop waits for READY only
end_status_ReadyOnly == {"READY"}

end_status == {"READY", "CREATE_FAILED", "DELETE_FAILED", "UPDATE_FAILED"}

\* launch_result.agent_id, launch_result.ecr_uri split at '/', and
\* agentcore_iam_role['Role']['RoleName']
agent_id == "strands_claude_streaming3-id"
ecr_uri == <<"account.dkr.ecr.region.amazonaws.com",
             "bedrock-agentcore-strands_claude_streaming3">>
RoleName == "agentcore-strands_claude_streaming3-role"

\* the inline policies of the role, as list_role_policies names them
PolicyNames == {"policy-a", "policy-b", "policy-c"}
PolicyLists ==
    {l \in UNION {[1..n -> PolicyNames] : n \in 0..MaxPolicies} :
        \A i, j \in DOMAIN l : i # j => l[i] # l[j]}

NbInit ==
    /\ nb_pc = "create_role"
    /\ nb_in_call = FALSE
    /\ status = None
    /\ polls = 0
    /\ policies = <<>>
    /\ policies_left = <<>>
    /\ policy_name = None

\* a remote call as the service sees it: the operation and what it names
NbEntry(op, ev, target) ==
    [op |-> op, ev |-> ev, step |-> nb_pc, target |-> target]

\* the kernel issues a remote call at pos and blocks in it
NbIssue(pos, op, target) ==
    /\ program = "notebook"
    /\ nb_pc = pos
    /\ ~nb_in_call
    /\ nb_in_call' = TRUE
    /\ outstanding' = Append(outstanding, op)
    /\ calls' = Append(calls, NbEntry(op, "call", target))
    /\ UNCHANGED <<outside_nb, nb_pc>>

\* the call issued at pos returns and the run goes on at goes_to
NbReturn(pos, op, target, goes_to) ==
    /\ program = "notebook"
    /\ nb_pc = pos
    /\ nb_in_call
    /\ nb_in_call' = FALSE
    /\ outstanding' = RemoveLast(outstanding, op)
    /\ calls' = Append(calls, NbEntry(op, "return", target))
    /\ nb_pc' = goes_to
    /\ UNCHANGED outside_nb

\* the call issued at pos raises: the exception leaves the cell
NbRaise(pos, op, target) ==
    /\ program = "notebook"
    /\ nb_pc = pos
    /\ nb_in_call
    /\ nb_in_call' = FALSE
    /\ outstanding' = RemoveLast(outstanding, op)
    /\ calls' = Append(calls, NbEntry(op, "raise", target))
    /\ nb_pc' = "halted"
    /\ UNCHANGED <<outside_nb, status, polls, policies, policies_left,
                   policy_name>>

\* the remote operation of a position, and what the call names
NbOperation(pos) ==
    CASE pos = "create_role" -> "create_agentcore_role"
      [] pos = "configure"   -> "agentcore_runtime.configure"
      [] pos = "launch"      -> "agentcore_runtime.launch"
      [] pos = "status"      -> "agentcore_runtime.status"
      [] pos = "poll"        -> "agentcore_runtime.status"
      [] pos = "invoke"      -> "agentcore_runtime.invoke"
      [] OTHER               -> pos
NbTarget(pos) ==
    CASE pos = "delete_agent_runtime" -> agent_id
      [] pos = "delete_repository"    -> ecr_uri[2]
      [] pos = "list_role_policies"   -> RoleName
      [] pos = "delete_role_policy"   -> policy_name
      [] pos = "delete_role"          -> RoleName
      [] OTHER                        -> None

\* the positions at which a remote call is made, and where the run goes on
\* when the call returned and the statement has nothing else to do
CallPositions == {"create_role", "configure", "launch", "status", "poll",
                  "invoke", "invoke_agent_runtime", "delete_agent_runtime",
                  "delete_repository", "list_role_policies",
                  "delete_role_policy", "delete_role"}
NextPosition(pos) ==
    CASE pos = "create_role"          -> "configure"
      [] pos = "configure"            -> "launch"
      [] pos = "launch"               -> "status"
      [] pos = "invoke"               -> "invoke_agent_runtime"
      [] pos = "delete_agent_runtime" -> "delete_repository"
      [] pos = "delete_repository"    -> "list_role_policies"
      [] pos = "delete_role_policy"   -> "for"
      [] pos = "delete_role"          -> "done"

\* the remote call of a position is issued; in the loop, time.sleep(10)
\* comes first
NbCall(pos) ==
    /\ pos \in CallPositions
    /\ NbIssue(pos, NbOperation(pos), NbTarget(pos))
    /\ UNCHANGED <<status, polls, policies, policies_left, policy_name>>

\* the remote call of a position raises
NbCallRaises(pos) ==
    /\ pos \in CallPositions
    /\ NbRaise(pos, NbOperation(pos), NbTarget(pos))

\* create_agentcore_role, configure, launch, agentcore_runtime.invoke,
\* delete_agent_runtime, delete_repository, delete_role_policy and
\* delete_role return
NbCallReturns(pos) ==
    /\ pos \in {"create_role", "configure", "launch", "invoke",
                "delete_agent_runtime", "delete_repository",
                "delete_role_policy", "delete_role"}
    /\ NbReturn(pos, NbOperation(pos), NbTarget(pos), NextPosition(pos))
    /\ UNCHANGED <<status, polls, policies, policies_left, policy_name>>

\* what a call of agentcore_runtime.status() may report: the loop of the
\* model reads at most MaxPolls statuses that are no end status
Reportable ==
    IF polls < MaxPolls THEN Statuses ELSE Statuses \cap end_status

\* agentcore_runtime.status() returns, before the loop and in its body:
\* status = status_response.endpoint['status']
StatusReturns(pos) ==
    /\ pos \in {"status", "poll"}
    /\ NbReturn(pos, NbOperation(pos), None, "while")
    /\ status' \in Reportable
    /\ polls' = IF status' \in end_status THEN polls ELSE polls + 1
    /\ UNCHANGED <<policies, policies_left, policy_name>>

\* mutant: the cell reads the status once and does not wait
KeepPolling_Never == FALSE

\* while status not in end_status
KeepPolling == status \notin end_status

\* the test of the while loop
WhileTest ==
    /\ program = "notebook"
    /\ nb_pc = "while"
    /\ nb_pc' = IF KeepPolling THEN "poll" ELSE "invoke"
    /\ UNCHANGED <<outside_nb, remote_vars, nb_in_call, status, polls,
                   policies, policies_left, policy_name>>

\* the boto3 client cell: invoke_agent_runtime returned; the rest of the
\* cell reads the response and ends, or its streaming branch raises
Boto3InvokeReturns ==
    /\ \E goes_to \in {"delete_agent_runtime", "halted"} :
          NbReturn("invoke_agent_runtime", "invoke_agent_runtime", None,
                   goes_to)
    /\ UNCHANGED <<status, polls, policies, policies_left, policy_name>>

\* policies = iam_client.list_role_policies(...); the for loop starts over
\* policies['PolicyNames']
ListRolePoliciesReturns ==
    /\ NbReturn("list_role_policies", "list_role_policies", RoleName, "for")
    /\ policies' \in PolicyLists
    /\ policies_left' = policies'
    /\ UNCHANGED <<status, polls, policy_name>>

\* mutant: the loop is left after its first policy
LoopIsOver_AfterFirst(left) == Len(left) < Len(policies) \/ left = <<>>

\* the for loop has visited every policy name
LoopIsOver(left) == left = <<>>

\* for policy_name in policies['PolicyNames']
ForPolicy ==
    /\ program = "notebook"
    /\ nb_pc = "for"
    /\ IF LoopIsOver(policies_left)
       THEN /\ nb_pc' = "delete_role"
            /\ UNCHANGED <<policy_name, policies_left>>
       ELSE /\ nb_pc' = "delete_role_policy"
            /\ policy_name' = Head(policies_left)
            /\ policies_left' = Tail(policies_left)
    /\ UNCHANGED <<outside_nb, remote_vars, nb_in_call, status, polls,
                   policies>>

NbNext ==
    \/ \E pos \in CallPositions : NbCall(pos)
    \/ \E pos \in CallPositions : NbCallRaises(pos)
    \/ \E pos \in CallPositions : NbCallReturns(pos)
    \/ \E pos \in {"status", "poll"} : StatusReturns(pos)
    \/ WhileTest
    \/ Boto3InvokeReturns
    \/ ListRolePoliciesReturns
    \/ ForPolicy

Programs == {"entrypoint", "interpreter", "browser", "client", "notebook"}

Init ==
    /\ program \in Programs
    /\ GenInit
    /\ CIInit
    /\ BrInit
    /\ ClInit
    /\ NbInit

Next ==
    \/ GenNext
    \/ CINext
    \/ BrNext
    \/ ClNext
    \/ NbNext

Spec == Init /\ [][Next]_vars

\* a run of a notebook goes on while a step is left: every blocking call
\* returns or raises, and the next statement or cell is run
LiveSpec == Spec /\ WF_vars(CINext) /\ WF_vars(NbNext)

(***************************************************************************)
(* Properties of the streaming entrypoint.                                 *)
(***************************************************************************)
\* everything the generator has yielded so far, in order
Yielded == received \o pending

\* the event["data"] values of the events that contain the key "data"
RECURSIVE DataOf(_)
DataOf(evs) ==
    IF evs = <<>> THEN <<>>
    ELSE (IF "data" \in DOMAIN Head(evs)
          THEN <<StrValue(Head(evs)["data"])>> ELSE <<>>) \o DataOf(Tail(evs))

\* the values of a stream before its first error object
RECURSIVE BeforeError(_)
BeforeError(vs) ==
    IF vs = <<>> \/ IsErrorObject(Head(vs)) THEN <<>>
    ELSE <<Head(vs)>> \o BeforeError(Tail(vs))

\* the events the loop body has dealt with: all but the one in hand
Handled ==
    IF gen_pc = "have_event" THEN SubSeq(produced, 1, Len(produced) - 1)
    ELSE produced

ErrorObjects(vs) == SelectSeq(vs, IsErrorObject)

\* C1 (as stated): whenever iterating agent.stream_async raises an
\* exception e, the exception never leaves the generator, which yields
\* exactly one object {"error": str(e), "type": "stream_error"} and then
\* returns.
C1_AnyExceptionIsYielded ==
    raised_in = "iteration" =>
        /\ gen_pc # "raised"
        /\ gen_pc \in {"yield_error", "done"} =>
               ErrorObjects(Yielded) = <<ErrorResponse(e)>>

\* C1 (amended): whenever iterating agent.stream_async raises an exception
\* e of class Exception, the exception never leaves the generator, which
\* yields exactly one object {"error": str(e), "type": "stream_error"},
\* as its last value, and then returns; before the handler has run no
\* error object was yielded.
C1_ExceptionIsYielded ==
    (raised_in = "iteration" /\ CaughtByExceptException(e)) =>
        /\ gen_pc \in {"except", "yield_error", "done"}
        /\ gen_pc = "except" => ErrorObjects(Yielded) = <<>>
        /\ gen_pc \in {"yield_error", "done"} =>
               /\ ErrorObjects(Yielded) = <<ErrorResponse(e)>>
               /\ Yielded[Len(Yielded)] = ErrorResponse(e)
        /\ gen_pc = "done" => received[Len(received)] = ErrorResponse(e)

\* C1 witness: the iteration raised an Exception after a chunk, the error
\* object was delivered and the generator returned
C1_Witness ==
    /\ gen_pc = "done"
    /\ raised_in = "iteration"
    /\ CaughtByExceptException(e)
    /\ Len(received) >= 2
    /\ IsErrorObject(received[Len(received)])

\* C2: the values yielded before any error object are exactly the
\* event["data"] values of the events that contain the key "data", in the
\* order the agent produced them: events without the key yield nothing,
\* and no chunk is duplicated, dropped or reordered.
C2_DataForwardedInOrder ==
    BeforeError(Yielded) = DataOf(Handled)

\* C2 witness: three events were produced, one of them without "data" and
\* two with different chunks, and the stream ended
C2_Witness ==
    /\ gen_pc = "done"
    /\ Len(produced) = 3
    /\ \E i \in 1..3 : "data" \notin DOMAIN produced[i]
    /\ Len(received) = 2
    /\ received[1] # received[2]

\* C3: an error object can only be the last element of the output stream:
\* the stream is a possibly empty sequence of data chunks followed by at
\* most one stream_error object, the chunks yielded before the failure are
\* kept, and no data chunk is yielded after the error object.
C3_ErrorOnlyLast ==
    /\ \A i \in 1..Len(Yielded) :
          \/ IsStrValue(Yielded[i])
          \/ /\ IsErrorObject(Yielded[i])
             /\ Yielded[i].type = "stream_error"
             /\ i = Len(Yielded)
    /\ Len(ErrorObjects(Yielded)) <= 1
    /\ SelectSeq(Yielded, IsStrValue) = DataOf(Handled)

\* C3 witness: two chunks were delivered, then the error object, and the
\* generator returned
C3_Witness ==
    /\ gen_pc = "done"
    /\ Len(received) = 3
    /\ IsStrValue(received[1])
    /\ IsStrValue(received[2])
    /\ IsErrorObject(received[3])

\* C10: the entrypoint forwards in lockstep with its consumer: the next
\* event is requested from agent.stream_async only after the consumer has
\* taken the chunk yielded last, so at most one chunk produced by the agent
\* has been pulled and not delivered, and nothing is buffered locally.
C10_Lockstep ==
    /\ [][produced' # produced =>
             /\ pending = <<>>
             /\ SelectSeq(received, IsStrValue) = DataOf(produced)]_vars
    /\ [](/\ Len(pending) <= 1
          /\ Len(DataOf(produced)) - Len(SelectSeq(received, IsStrValue)) <= 1)

\* C10 witness: a second event has been pulled after the first chunk was
\* taken, and its chunk waits at the yield for the consumer
C10_Witness ==
    /\ gen_pc = "yield_data"
    /\ Len(produced) >= 2
    /\ Len(received) >= 1
    /\ Len(pending) = 1

(***************************************************************************)
(* Properties of the code-interpreter notebook.                            *)
(***************************************************************************)
\* the places in the log where op was issued, and where it returned
IssuedAt(op) ==
    {i \in 1..Len(calls) : calls[i].op = op /\ calls[i].ev = "call"}
ReturnedAt(op) ==
    {i \in 1..Len(calls) : calls[i].op = op /\ calls[i].ev = "return"}

\* the place of an operation in the order create, start, invoke, stop,
\* delete
Rank(op) ==
    CASE op = "create_code_interpreter"        -> 1
      [] op = "start_code_interpreter_session" -> 2
      [] op = "invoke_code_interpreter"        -> 3
      [] op = "stop_code_interpreter_session"  -> 4
      [] op = "delete_code_interpreter"        -> 5

\* C4: the remote calls follow the order create_code_interpreter,
\* start_code_interpreter_session, invoke_code_interpreter (one or more),
\* stop_code_interpreter_session, delete_code_interpreter: every invoke is
\* issued after the session start returned and before the session stop,
\* and the interpreter is deleted only after its session was stopped.
C4_CallOrder ==
    program = "interpreter" =>
        /\ \A i, j \in 1..Len(calls) :
              (i < j /\ calls[i].ev = "call" /\ calls[j].ev = "call") =>
                  Rank(calls[i].op) <= Rank(calls[j].op)
        /\ \A i \in IssuedAt("start_code_interpreter_session") :
              \E j \in ReturnedAt("create_code_interpreter") : j < i
        /\ \A i \in IssuedAt("invoke_code_interpreter") :
              /\ \E j \in ReturnedAt("start_code_interpreter_session") : j < i
              /\ \A k \in IssuedAt("stop_code_interpreter_session") : i < k
        /\ \A i \in IssuedAt("stop_code_interpreter_session") :
              \E j \in IssuedAt("invoke_code_interpreter") : j < i
        /\ \A i \in IssuedAt("delete_code_interpreter") :
              \E j \in ReturnedAt("stop_code_interpreter_session") :
                  /\ j < i
                  /\ calls[j].interpreter = calls[i].interpreter

\* C4 witness: a complete run, with its six invocations and the deletion
C4_Witness ==
    /\ program = "interpreter"
    /\ ci_pc = "done"
    /\ Cardinality(IssuedAt("invoke_code_interpreter")) = 6
    /\ IssuedAt("delete_code_interpreter") # {}

\* the stop call for the run's session, and the delete call for its
\* interpreter after that stop returned
StopIssued ==
    \E i \in IssuedAt("stop_code_interpreter_session") :
        /\ calls[i].session = session_id
        /\ calls[i].interpreter = interpreter_id
DeleteIssuedAfterStop ==
    \E i \in IssuedAt("delete_code_interpreter") :
        /\ calls[i].interpreter = interpreter_id
        /\ \E j \in IssuedAt("stop_code_interpreter_session") : j < i

SessionStarted == program = "interpreter" /\ session_id # None
RunEnded == ci_pc \in {"done", "halted"}

Entered(step) ==
    LET at == IF ci_pc = "halted" THEN ci_halted_in ELSE ci_pc
    IN  \/ ci_pc = "done"
        \/ StepIndex(at) > StepIndex(step)
        \/ at = step /\ (ci_in_call \/ ci_pc = "halted")

\* C6: no remote call is retried after a failure: in one run of the
\* notebook each of create, start, stop and delete is issued at most once,
\* each call of call_tool issues exactly one invoke_code_interpreter, no
\* call follows a call that raised, and one invocation of the streaming
\* entrypoint calls agent.stream_async exactly once, also when that call
\* or its iteration fails.
C6_NoRetry ==
    /\ program = "interpreter" =>
          /\ \A op \in {"create_code_interpreter",
                        "start_code_interpreter_session",
                        "stop_code_interpreter_session",
                        "delete_code_interpreter"} :
                Cardinality(IssuedAt(op)) <= 1
          /\ \A step \in ToolCells :
                Cardinality({i \in IssuedAt("invoke_code_interpreter") :
                                calls[i].step = step})
                    = IF Entered(step) THEN 1 ELSE 0
          /\ \A i \in 1..Len(calls) :
                calls[i].ev = "raise" => i = Len(calls)
    /\ program = "entrypoint" =>
          stream_async_calls = IF gen_pc \in {"created", "try"} THEN 0 ELSE 1

\* C6 witness: an invocation raised in the bucket cell and the run ended
\* with that failure as its last remote event
C6_Witness ==
    /\ program = "interpreter"
    /\ ci_pc = "halted"
    /\ ci_halted_in = "mb"
    /\ calls[Len(calls)].ev = "raise"
    /\ calls[Len(calls)].op = "invoke_code_interpreter"

(***************************************************************************)
(* Properties of the browser notebook.                                     *)
(***************************************************************************)
\* C8: once the BrowserSession object has been created,
\* browser_session.close() is attempted exactly once on every exit path of
\* the cell (browser_session.start() raised, the task failed, the task
\* succeeded); when the object was never created, no close is attempted.
C8_CloseAttemptedOnce ==
    /\ close_attempts <= 1
    /\ close_attempts = 1 => browser_session # None
    /\ (program = "browser" /\ br_pc \in {"client_stop", "done", "halted"}) =>
          close_attempts = IF browser_session # None THEN 1 ELSE 0

\* C8 witness: browser_session.start() raised, the close was attempted
\* once and the cell ended with the exception
C8_Witness ==
    /\ program = "browser"
    /\ br_pc = "halted"
    /\ browser_session # None
    /\ bedrock_chat = None
    /\ close_attempts = 1
    /\ br_exc # NoException

\* C9: in the code-interpreter and browser notebooks at most one remote
\* operation is outstanding at any moment: a remote call is issued only
\* after the previous remote call of the run has returned or raised.
C9_OneOutstanding ==
    /\ [](Len(outstanding) <= 1)
    /\ [][(Len(calls') > Len(calls)
             /\ calls'[Len(calls) + 1].ev = "call") =>
                 outstanding = <<>>]_vars

\* C9 witness: the browser task runs, after the calls before it returned
C9_Witness ==
    /\ program = "browser"
    /\ br_pc = "agent_run"
    /\ br_in_call
    /\ outstanding = <<"agent.run">>
    /\ Len(calls) >= 6

(***************************************************************************)
(* Properties of the boto3 streaming client.                               *)
(***************************************************************************)
\* a line, decoded, is non-empty and starts with "data: "
IsDataLine(str) ==
    /\ Len(str) >= 6
    /\ str[1] = "d" /\ str[2] = "a" /\ str[3] = "t" /\ str[4] = "a"
    /\ str[5] = ":" /\ str[6] = " "

\* the characters of str from position `from` on that are no double quote
RECURSIVE Unquoted(_, _)
Unquoted(str, from) ==
    IF from > Len(str) THEN <<>>
    ELSE IF str[from] = "\"" THEN Unquoted(str, from + 1)
    ELSE <<str[from]>> \o Unquoted(str, from + 1)

\* one entry per data line, in line order
RECURSIVE EntriesOf(_)
EntriesOf(ls) ==
    IF ls = <<>> THEN <<>>
    ELSE LET last == Decode(ls[Len(ls)])
             rest == EntriesOf(SubSeq(ls, 1, Len(ls) - 1))
         IN  IF IsDataLine(last) THEN Append(rest, Unquoted(last, 7))
             ELSE rest

\* the entries, each but the first after one space
RECURSIVE Joined(_)
Joined(list) ==
    IF list = <<>> THEN <<>>
    ELSE IF Len(list) = 1 THEN list[1]
    ELSE Joined(SubSeq(list, 1, Len(list) - 1)) \o <<" ">> \o list[Len(list)]

\* C7: for every sequence of lines of a text/event-stream response,
\* content holds, in line order, exactly one entry per non-empty line that
\* starts with "data: ", equal to that line without its 6-character prefix
\* and with every double quote removed; empty lines and lines with another
\* prefix add nothing; full_response is the entries joined by single
\* spaces.
C7_ContentOfDataLines ==
    (/\ program = "client"
     /\ IsEventStream(boto3_response)
     /\ cl_pc \in {"iter_lines", "done", "halted"}) =>
        /\ content = EntriesOf(lines)
        /\ cl_pc = "done" => full_response = Joined(EntriesOf(lines))

\* C7 witness: three lines were read, an empty one, one with another
\* prefix or none, and data lines of which one holds double quotes; the
\* joined text is displayed
C7_Witness ==
    /\ program = "client"
    /\ cl_pc = "done"
    /\ Len(lines) = 3
    /\ lines[2] = <<>>
    /\ Len(content) = 2
    /\ lines[1] = <<100, 97, 116, 97, 58, 32, 34, 120, 34>>
    /\ full_response = <<"x", " ", "x", "y">>

(***************************************************************************)
(* Properties of call_tool.                                                *)
(***************************************************************************)
\* the invoke_code_interpreter of a cell returned and nothing ran since
JustReturned(cells) ==
    /\ calls # <<>>
    /\ calls[Len(calls)].ev = "return"
    /\ calls[Len(calls)].step \in cells

\* C11: over a response stream that holds at least one event, call_tool
\* returns the JSON serialization of the "result" of the first event and
\* takes no further event from the stream; json.loads of the returned value
\* is the result of the first event, and that is what the parsing cells
\* bind to command_results.
C11_FirstResultReturned ==
    (program = "interpreter" /\ response # NoStream /\ response # <<>>) =>
        /\ command_response = JsonDumps(response[1]["result"])
        /\ JsonLoads(command_response) = response[1]["result"]
        /\ events_read = 1
        /\ JustReturned(ParsingCells) =>
              command_results = response[1]["result"]

\* C11 witness: a parsing cell got a stream of two events with different
\* results, and holds the result of the first
C11_Witness ==
    /\ program = "interpreter"
    /\ JustReturned(ParsingCells)
    /\ Len(response) = 2
    /\ response[1] # response[2]
    /\ events_read = 1
    /\ command_results = response[1]["result"]
    /\ "structuredContent" \in Keys(command_results)

(***************************************************************************)
(* Properties of the cells of the streaming notebook.                      *)
(***************************************************************************)
\* the four statuses that end the polling
EndStatuses == {"READY", "CREATE_FAILED", "DELETE_FAILED", "UPDATE_FAILED"}

\* the polling cell is running, and the run has gone past it
InPollingCell == nb_pc \in {"status", "while", "poll"}
PastPollingCell ==
    nb_pc \in {"invoke", "invoke_agent_runtime", "delete_agent_runtime",
               "delete_repository", "list_role_policies", "for",
               "delete_role_policy", "delete_role", "done"}
    \/ (nb_pc = "halted" /\ \E i \in 1..Len(calls) :
                               calls[i].op = "agentcore_runtime.invoke")

\* the calls of agentcore_runtime.status() issued so far
StatusCalls ==
    Cardinality({i \in 1..Len(calls) :
                    /\ calls[i].op = "agentcore_runtime.status"
                    /\ calls[i].ev = "call"})

\* C12: the polling loop is left only with a last status among READY,
\* CREATE_FAILED, DELETE_FAILED, UPDATE_FAILED; once such a status was
\* read, agentcore_runtime.status() is not called again; and a loop that
\* has read such a status ends.
C12_PollingEndsOnEndStatus ==
    /\ [](program = "notebook" /\ PastPollingCell => status \in EndStatuses)
    /\ [][(program = "notebook" /\ status \in EndStatuses)
             => (StatusCalls' = StatusCalls /\ status' = status)]_vars
    /\ ((program = "notebook" /\ InPollingCell /\ status \in EndStatuses)
           ~> PastPollingCell)

\* C12 witness: the loop read two statuses that end nothing, then
\* UPDATE_FAILED, and the run went on to the next cell
C12_Witness ==
    /\ program = "notebook"
    /\ nb_pc = "invoke"
    /\ polls = 2
    /\ StatusCalls = 3
    /\ status = "UPDATE_FAILED"

\* the invocations of the agent runtime issued so far
Invocations ==
    {i \in 1..Len(calls) :
        /\ calls[i].op \in {"agentcore_runtime.invoke", "invoke_agent_runtime"}
        /\ calls[i].ev = "call"}

\* C13 as stated: the agent runtime is invoked (agentcore_runtime.invoke,
\* invoke_agent_runtime) only in a run whose last read status is READY; no
\* invocation is issued when the polling ended on CREATE_FAILED,
\* DELETE_FAILED or UPDATE_FAILED.
C13_InvokedOnlyWhenReady ==
    (program = "notebook" /\ Invocations # {}) => status = "READY"

\* C13, amended: the agent runtime is invoked only after the polling loop
\* has ended, that is after it read one of READY, CREATE_FAILED,
\* DELETE_FAILED, UPDATE_FAILED, and after the last call of
\* agentcore_runtime.status() returned; the invoke cells do not look at
\* the status.
C13_InvokedOnlyAfterPolling ==
    program = "notebook" =>
        \A i \in Invocations :
            /\ status \in EndStatuses
            /\ \E j \in 1..(i - 1) :
                  /\ calls[j].op = "agentcore_runtime.status"
                  /\ calls[j].ev = "return"
            /\ \A j \in 1..Len(calls) :
                  calls[j].op = "agentcore_runtime.status" => j < i

\* C13 witness: both invocations were issued in a run whose polling ended
\* on CREATE_FAILED
C13_Witness ==
    /\ program = "notebook"
    /\ status = "CREATE_FAILED"
    /\ \E i, j \in Invocations :
          /\ calls[i].op = "agentcore_runtime.invoke"
          /\ calls[j].op = "invoke_agent_runtime"

(***************************************************************************)
(* Properties of the write-file cell and of the S3 cells.                  *)
(***************************************************************************)
\* the invocations of a tool issued so far
InvocationsOf(tool) ==
    {i \in 1..Len(calls) : calls[i].ev = "call" /\ calls[i].name = tool}

\* C14: the text that the writeFiles call sends for path stats.py is the
\* full content read from local_file by this execution of the cell; when
\* opening or reading the file failed, no writeFiles call carries another
\* value (the file object, or content an earlier execution left behind).
C14_WriteFilesSendsFileContent ==
    program = "interpreter" =>
        \A i \in InvocationsOf("writeFiles") :
            /\ Len(calls[i].arguments.content) = 1
            /\ calls[i].arguments.content[1].path = "stats.py"
            /\ calls[i].arguments.content[1].text = FileText

\* the calls and the returns of the cell `step`
CallsOf(step) ==
    {i \in 1..Len(calls) : calls[i].ev = "call" /\ calls[i].step = step}
ReturnsOf(step) ==
    {i \in 1..Len(calls) : calls[i].ev = "return" /\ calls[i].step = step}

C20_CallsCarryTheIdsOfTheRun ==
    /\ [](program = "interpreter" =>
            \A i \in 1..Len(calls) :
                /\ calls[i].op \in {"invoke_code_interpreter",
                                    "stop_code_interpreter_session"} =>
                      /\ calls[i].interpreter =
                            interpreter_response["codeInterpreterId"]
                      /\ calls[i].session = session_response["sessionId"]
                /\ calls[i].op \in {"start_code_interpreter_session",
                                    "delete_code_interpreter"} =>
                      calls[i].interpreter =
                          interpreter_response["codeInterpreterId"])
    /\ [][(program = "interpreter" /\ ci_pc \in ToolCells) =>
             (interpreter_id' = interpreter_id /\ session_id' = session_id)]_vars

\* C20 witness: the six invocations, the stop and the delete were issued
\* for the interpreter and the session of the run
C20_Witness ==
    /\ program = "interpreter"
    /\ interpreter_response = [codeInterpreterId |-> "interpreter-2"]
    /\ session_response = [sessionId |-> "session-1"]
    /\ Cardinality(IssuedAt("invoke_code_interpreter")) = 6
    /\ \E i \in IssuedAt("delete_code_interpreter") :
          calls[i].interpreter = "interpreter-2"
    /\ \E i \in IssuedAt("stop_code_interpreter_session") :
          calls[i].session = "session-1"

(***************************************************************************)
(* Properties of the non-streaming branch of the boto3 client.            *)
(***************************************************************************)
\* the cell took the branch of a response that is no event stream
InNonStreamingBranch ==
    /\ program = "client"
    /\ boto3_response # NoResponse
    /\ ~IsEventStream(boto3_response)

\* C15 as stated: the non-streaming branch never raises.
C15_NonStreamingNeverRaises ==
    InNonStreamingBranch => cl_pc # "halted"

\* C15, amended: the non-streaming branch raises no exception of class
\* Exception: an Exception raised while the events are read replaces
\* events by a one-element list holding the error message; a failure to
\* decode, parse or display events[0] is caught, whatever its class, and
\* the raw first event is printed instead; with an empty list nothing is
\* displayed or printed.  An exception outside Exception raised while the
\* events are read leaves the cell.
C15_NonStreamingCatchesExceptions ==
    InNonStreamingBranch =>
        /\ cl_pc = "halted" =>
              (cl_exc # NoException /\ ~CaughtByExceptException(cl_exc))
        /\ cl_pc # "halted" => cl_exc = NoException
        /\ cl_e # NoException => events = <<ErrorReadingEventStream(cl_e)>>
        /\ cl_pc = "done" =>
              /\ events = <<>> => (displayed = <<>> /\ printed = <<>>)
              /\ events # <<>> =>
                    \/ /\ Parses(events[1])
                       /\ displayed = <<JsonLoadsText(Decode(events[1].value))>>
                       /\ printed = <<>>
                    \/ /\ printed = <<events[1]>>
                       /\ displayed = <<>>
        /\ cl_pc # "done" => (displayed = <<>> /\ printed = <<>>)

\* C15 witness: reading the events raised an Exception, and the cell ended
\* having printed the error message as the raw response
C15_Witness ==
    /\ InNonStreamingBranch
    /\ cl_pc = "done"
    /\ cl_e = [cls |-> "Exception", msg |-> "boom"]
    /\ printed = <<[type |-> "str",
                    value |-> "Error reading EventStream: boom"]>>
    /\ displayed = <<>>

(***************************************************************************)
(* Properties of run_browser_task and of the order of the browser calls.   *)
(***************************************************************************)
\* run_browser_task was called and has ended; the finally clause of the
\* cell has not run yet
TaskEnded ==
    /\ program = "browser"
    /\ bedrock_chat # None
    /\ br_pc = "finally"

\* the outcome messages are the success message alone exactly when
\* agent.run() returned, and one error message alone otherwise
OneOutcomeMessage ==
    /\ Len(outcome_messages) = 1
    /\ (outcome_messages[1] = SuccessMessage) <=>
          (ReturnedAt("agent.run") # {})
    /\ outcome_messages[1] # SuccessMessage =>
          \E ex \in Exceptions : outcome_messages[1] = ErrorMessage(ex)

\* C16 as stated: run_browser_task propagates no exception of class
\* Exception, and every call prints exactly one of the two outcome
\* messages: the success message only when agent.run() returned, the error
\* message otherwise.
C16_OneOutcomeMessagePerCall ==
    TaskEnded =>
        /\ br_exc # NoException => ~CaughtByExceptException(br_exc)
        /\ OneOutcomeMessage

\* C16, amended: run_browser_task propagates no exception of class
\* Exception, and every call that ends without propagating an exception
\* prints exactly one of the two outcome messages: the success message
\* only when agent.run() returned, the error message otherwise.  A call
\* that agent.run() leaves with an exception outside Exception propagates
\* it and prints neither message.
C16_OneOutcomeMessageUnlessPropagated ==
    /\ TaskEnded =>
          /\ br_exc # NoException =>
                (~CaughtByExceptException(br_exc) /\ outcome_messages = <<>>)
          /\ br_exc = NoException => OneOutcomeMessage
    /\ (program = "browser" /\ br_pc \in {"agent", "agent_run"}) =>
          outcome_messages = <<>>
    /\ Len(outcome_messages) <= 1

\* C16 witness: agent.run() raised an Exception, run_browser_task printed
\* the error message and returned
C16_Witness ==
    /\ TaskEnded
    /\ br_exc = NoException
    /\ \E i \in 1..Len(calls) :
          calls[i].op = "agent.run" /\ calls[i].ev = "raise"
    /\ outcome_messages = <<"Error during task execution: throttled">>

\* the place of a call in the order of the browser notebook
BrRank(op) ==
    CASE op = "client.start"               -> 1
      [] op = "client.generate_ws_headers" -> 2
      [] op = "browser_session.start"      -> 3
      [] op = "agent.run"                  -> 4
      [] op = "browser_session.close"      -> 5
      [] op = "client.stop"                -> 6

CleanupOperations == {"delete_agent_runtime", "delete_repository",
                      "list_role_policies", "delete_role_policy",
                      "delete_role"}
CleanupRank(op) ==
    CASE op = "delete_agent_runtime" -> 1
      [] op = "delete_repository"    -> 2
      [] op = "list_role_policies"   -> 3
      [] op = "delete_role_policy"   -> 4
      [] op = "delete_role"          -> 5

\* the policy names delete_role_policy was called with, in call order
RECURSIVE PoliciesDeleted(_)
PoliciesDeleted(n) ==
    IF n = 0 THEN <<>>
    ELSE IF calls[n].op = "delete_role_policy" /\ calls[n].ev = "call"
    THEN Append(PoliciesDeleted(n - 1), calls[n].target)
    ELSE PoliciesDeleted(n - 1)

\* C17: in the cleanup cell delete_role is called only after
\* delete_role_policy was called, and returned, for every policy name that
\* list_role_policies returned; the calls come in the order
\* delete_agent_runtime, delete_repository, the role policies (in the
\* order of the list, each once), delete_role; and after a call that
\* raised no further call is issued.
C17_CleanupOrder ==
    program = "notebook" =>
        /\ \A i, j \in 1..Len(calls) :
              (/\ i < j
               /\ calls[i].ev = "call" /\ calls[j].ev = "call"
               /\ calls[i].op \in CleanupOperations
               /\ calls[j].op \in CleanupOperations) =>
                  /\ CleanupRank(calls[i].op) <= CleanupRank(calls[j].op)
                  /\ CleanupRank(calls[i].op) = CleanupRank(calls[j].op) =>
                        calls[i].op = "delete_role_policy"
        /\ \A i \in IssuedAt("delete_role") :
              /\ ReturnedAt("list_role_policies") # {}
              /\ PoliciesDeleted(i) = policies
              /\ \A k \in 1..Len(policies) :
                    \E j \in 1..(i - 1) :
                        /\ calls[j].op = "delete_role_policy"
                        /\ calls[j].ev = "return"
                        /\ calls[j].target = policies[k]
        /\ \E n \in 0..Len(policies) :
              PoliciesDeleted(Len(calls)) = SubSeq(policies, 1, n)
        /\ \A i \in 1..Len(calls) :
              calls[i].ev = "raise" =>
                  (i = Len(calls) /\ nb_pc = "halted")

\* C17 witness: the role was deleted after its two policies
C17_Witness ==
    /\ program = "notebook"
    /\ nb_pc = "done"
    /\ policies = <<"policy-b", "policy-a">>
    /\ PoliciesDeleted(Len(calls)) = policies
    /\ ReturnedAt("delete_role") # {}

(***************************************************************************)
(* call_tool over a response stream without events.                       *)
(***************************************************************************)
\* C21: when invoke_code_interpreter returned, call_tool returns a value:
\* None over a stream that holds no event, a JSON text otherwise. Over an
\* empty stream no event is taken and call_tool raises nothing: a cell that
\* only prints the value goes on to the next cell, and a cell that parses
\* it halts in its json.loads, leaving command_results as it was.
C21_EmptyStreamReturnsNone ==
    (program = "interpreter" /\ JustReturned(ToolCells)) =>
        LET cell == calls[Len(calls)].step
        IN  /\ command_response = NoneValue \/ IsJsonText(command_response)
            /\ IsJsonText(command_response) <=> response # <<>>
            /\ response = <<>> =>
                  /\ events_read = 0
                  /\ cell \in ParsingCells =>
                        ci_pc = "halted" /\ ci_halted_in = cell
                  /\ cell \notin ParsingCells => ci_pc = NextStep(cell)
                  /\ cell = "hello" => command_results = NoneValue

\* C21 witness: the pip cell got a stream without events, call_tool
\* returned None and the cell halted after the call had returned
C21_Witness ==
    /\ program = "interpreter"
    /\ JustReturned({"pip"})
    /\ response = <<>>
    /\ command_response = NoneValue
    /\ ci_pc = "halted"
    /\ ci_halted_in = "pip"

(***************************************************************************)
(* The boto3 streaming client over a stream_error chunk.                   *)
(***************************************************************************)
\* what the error line leaves in content: {error: x, type: stream_error}
StreamErrorEntry ==
    <<"{", "e", "r", "r", "o", "r", ":", " ", "x", ",", " ",
      "t", "y", "p", "e", ":", " ",
      "s", "t", "r", "e", "a", "m", "_", "e", "r", "r", "o", "r", "}">>

\* the streaming branch has read the error line as its i-th line
StreamErrorReadAt(i) ==
    /\ program = "client"
    /\ IsEventStream(boto3_response)
    /\ i \in 1..Len(lines)
    /\ lines[i] = StreamErrorLine

\* the state part of C22
StreamErrorKeptAsData ==
    \A i \in 1..MaxLines + 1 :
        StreamErrorReadAt(i) =>
            LET k == Len(EntriesOf(SubSeq(lines, 1, i)))
            IN  /\ k \in 1..Len(content)
                /\ content[k] = StreamErrorEntry
                /\ Len(content) = Len(EntriesOf(lines))
                /\ cl_exc = NoException /\ cl_e = NoException
                /\ events = <<>> /\ printed = <<>> /\ displayed = <<>>
                /\ cl_pc = "iter_lines" =>
                      /\ ENABLED DisplayFullResponse
                      /\ Len(lines) < MaxLines => ENABLED ReadLine
                /\ cl_pc = "done" =>
                      /\ full_response = JoinWithSpaces(content)
                      /\ full_response = Joined(EntriesOf(lines))

\* the step that reads the error line
StreamErrorStep ==
    (program = "client" /\ lines' = Append(lines, StreamErrorLine)) =>
        /\ cl_pc' = "iter_lines"
        /\ content' = Append(content, StreamErrorEntry)
        /\ UNCHANGED <<boto3_response, full_response, non_streaming_vars>>

\* C22: a "data: " line that carries the error response of the entrypoint
\* is handled as any data line: the step that reads it appends the text
\* after the prefix, without its double quotes, to content and stays in the
\* loop; the following lines are still read, no exception and no other
\* record of the error is kept, and once the lines are exhausted
\* full_response is the join of all entries, the error entry included.
C22_StreamErrorIsADataChunk ==
    []StreamErrorKeptAsData /\ [][StreamErrorStep]_vars

\* C22 witness: the error line came between two data lines, all three were
\* read and the joined text, with the error entry in the middle, is displayed
C22_Witness ==
    /\ program = "client"
    /\ cl_pc = "done"
    /\ Len(lines) = 3
    /\ lines[1] = <<100, 97, 116, 97, 58, 32, 120>>
    /\ lines[2] = StreamErrorLine
    /\ lines[3] = <<100, 97, 116, 97, 58, 32, 120, 34, 121>>
    /\ content = <<<<"x">>, StreamErrorEntry, <<"x", "y">>>>
    /\ full_response = <<"x", " ">> \o StreamErrorEntry \o <<" ", "x", "y">>

====
